---- MODULE Spec2Model ----
(***************************************************************************)
(* Expectation modelling -> delta detection -> event classification of the *)
(* discourse monitor (src/src/expectation, src/src/detection,               *)
(* src/src/models).                                                         *)
(*                                                                         *)
(* Numbers.  The Python code computes on floats; the model computes on     *)
(* exact rationals <<n, d>> (d > 0, lowest terms), so that equalities and  *)
(* strict comparisons are decided exactly.  Times are whole minutes since  *)
(* a Monday 00:00 UTC; NoTime stands for None.                             *)
(***************************************************************************)
EXTENDS Integers, Sequences, FiniteSets, TLC

VARIABLES
    cluster,        \* classifier harness: the DeltaCluster being assembled by add_delta
    prevCluster,    \* the same cluster before the last add_delta
    event,          \* the DetectedEvent last returned by create_event, or NoEvent
    eventInput,     \* how create_event was called: "none", "deltas" or "cluster"
    detConfig,      \* DetectionConfig: the thresholds handed to the analyzers
    azSnapshot,     \* the DiscourseSnapshot under analysis
    azExpectation,  \* the DiscourseExpectation it is compared with
    lastSeen,       \* VoiceSilenceAnalyzer.last_seen: account id -> time or NoTime
    analyzer,       \* the analyzer that ran last, or "none"
    azDeltas,       \* the list it returned
    history,        \* the snapshots the existing baseline is built from
    existingBaseline, \* the BaselinePattern handed to update_baseline
    prevExisting,   \* the same baseline as it was when update_baseline was called
    newSnapshots,   \* update_baseline's new_snapshots
    decayFactor,    \* update_baseline's decay_factor
    merged,         \* the baseline update_baseline returned, or NoBaseline
    clock,          \* datetime.utcnow(), in ticks
    loadedBaselines, \* ExpectationGenerator.baselines: entity -> baseline or NoBaseline
    triggerManager, \* the TriggerManager's active and scheduled triggers
    generated,      \* the generate_expectation call just made and what it returned
    queried,        \* the query of the trigger manager or the detector just made, and its answer
    sharedDetector, \* the DeltaDetector: last_seen, recent_deltas, delta_history
    returned,       \* the last detect call and what it returned
    alone,          \* per entity, the detector that saw only that entity's calls
    aloneReturned,  \* what the last detect call returns from that detector
    processed       \* the snapshots the voice analyzer has processed: window_end, active accounts

varsEvents == <<cluster, prevCluster, event, eventInput>>
varsAnalyze == <<detConfig, azSnapshot, azExpectation, lastSeen, analyzer, azDeltas>>
varsBaseline == <<history, existingBaseline, prevExisting, newSnapshots, decayFactor, merged>>
varsSystem == <<clock, loadedBaselines, triggerManager, generated, queried,
                sharedDetector, returned, alone, aloneReturned, processed>>
vars == <<cluster, prevCluster, event, eventInput,
          detConfig, azSnapshot, azExpectation, lastSeen, analyzer, azDeltas,
          history, existingBaseline, prevExisting, newSnapshots, decayFactor, merged,
          clock, loadedBaselines, triggerManager, generated, queried,
          sharedDetector, returned, alone, aloneReturned, processed>>

----------------------------------------------------------------------------
(* Exact rational arithmetic standing for the float arithmetic of the code *)

Abs(i) == IF i < 0 THEN -i ELSE i

RECURSIVE GCD(_, _)
GCD(a, b) == IF b = 0 THEN a ELSE GCD(b, a % b)

Rat(n, d) ==
    LET g == GCD(Abs(n), d)
    IN  IF n = 0 THEN <<0, 1>> ELSE <<n \div g, d \div g>>

R(i) == <<i, 1>>
RAdd(a, b) == Rat(a[1] * b[2] + b[1] * a[2], a[2] * b[2])
RSub(a, b) == Rat(a[1] * b[2] - b[1] * a[2], a[2] * b[2])
RMul(a, b) == Rat(a[1] * b[1], a[2] * b[2])
RDiv(a, b) ==
    IF b[1] > 0 THEN Rat(a[1] * b[2], a[2] * b[1])
                ELSE Rat(-(a[1] * b[2]), -(a[2] * b[1]))
RLt(a, b) == a[1] * b[2] < b[1] * a[2]
RLe(a, b) == a[1] * b[2] <= b[1] * a[2]
RMin(a, b) == IF RLe(a, b) THEN a ELSE b
RMax(a, b) == IF RLe(a, b) THEN b ELSE a
RAbs(a) == <<Abs(a[1]), a[2]>>

RECURSIVE RSum(_)
RSum(s) == IF s = <<>> THEN R(0) ELSE RAdd(Head(s), RSum(Tail(s)))

SeqToSet(s) == {s[i] : i \in 1..Len(s)}

NoTime == -1

----------------------------------------------------------------------------
(* models/delta.py *)

\* DeltaType members, by name
DeltaType ==
    {"TOPIC_ABSENCE", "TOPIC_SUBSTITUTION", "VOICE_SILENCE", "UNEXPECTED_VOICE",
     "SENTIMENT_DECOUPLING", "TONE_SHIFT", "NETWORK_BREAK", "RESPONSE_DELAY",
     "VOLUME_COLLAPSE", "VOLUME_SPIKE", "TEMPORAL_SHIFT", "COORDINATED_SILENCE"}

\* The members ordered by their .value strings, the key classify_cluster sorts on
DeltaTypeByValue ==
    <<"COORDINATED_SILENCE", "NETWORK_BREAK", "RESPONSE_DELAY", "SENTIMENT_DECOUPLING",
      "TEMPORAL_SHIFT", "TONE_SHIFT", "TOPIC_ABSENCE", "TOPIC_SUBSTITUTION",
      "UNEXPECTED_VOICE", "VOICE_SILENCE", "VOLUME_COLLAPSE", "VOLUME_SPIKE">>

\* list(DeltaSeverity), in definition order
DeltaSeverity == <<"LOW", "MEDIUM", "HIGH", "CRITICAL">>

SeverityIndex(s) == CHOOSE i \in 1..Len(DeltaSeverity) : DeltaSeverity[i] = s

\* Delta: the base dataclass fields with their defaults, and the variant
\* fields the detector and the classifier read ("" / NoTime / R(0) when the
\* variant has none).  delta_id is a fresh uuid and carries no information.
Delta(type, entity, at, ws, we, conf) ==
    [delta_type |-> type, entity |-> entity, detected_at |-> at,
     window_start |-> ws, window_end |-> we,
     severity |-> "MEDIUM", confidence |-> conf,
     expected_value |-> R(0), observed_value |-> R(0), deviation_score |-> R(0),
     subject |-> "", flagged |-> FALSE,
     last_post_time |-> NoTime, silence_hours |-> R(0),
     is_collapse |-> FALSE, z_score |-> R(0)]

\* TopicAbsenceDelta and its __post_init__
TopicAbsenceDelta(entity, at, ws, we, topic_id, expected_mentions, observed_mentions, is_required_topic, conf) ==
    [Delta("TOPIC_ABSENCE", entity, at, ws, we, conf) EXCEPT
        !.subject = topic_id,
        !.flagged = is_required_topic,
        !.expected_value = expected_mentions,
        !.observed_value = R(observed_mentions),
        !.deviation_score =
            IF RLt(R(0), expected_mentions)
            THEN RSub(R(1), RDiv(R(observed_mentions), expected_mentions))
            ELSE R(0)]

\* VoiceSilenceDelta and its __post_init__ (observed_posts is always 0)
VoiceSilenceDelta(entity, at, ws, we, account_id, silence_hours, expected_posts, last_post_time, is_key_voice, conf) ==
    [Delta("VOICE_SILENCE", entity, at, ws, we, conf) EXCEPT
        !.subject = account_id,
        !.flagged = is_key_voice,
        !.silence_hours = silence_hours,
        !.last_post_time = last_post_time,
        !.expected_value = expected_posts,
        !.observed_value = R(0),
        !.deviation_score = IF RLt(R(0), expected_posts) THEN R(1) ELSE R(0)]

\* SentimentDecouplingDelta and its __post_init__
SentimentDecouplingDelta(entity, at, ws, we, topic_id, expected_sentiment, observed_sentiment, z_score, conf) ==
    [Delta("SENTIMENT_DECOUPLING", entity, at, ws, we, conf) EXCEPT
        !.subject = topic_id,
        !.expected_value = expected_sentiment,
        !.observed_value = observed_sentiment,
        !.z_score = z_score,
        !.deviation_score = RDiv(RAbs(RSub(observed_sentiment, expected_sentiment)), R(2))]

\* VolumeAnomalyDelta and its __post_init__: the ratio, is_collapse and the
\* type are recomputed from the volumes, whatever is_collapse was passed
VolumeAnomalyDelta(entity, at, ws, we, expected_volume, observed_volume, is_collapse, z_score, conf) ==
    LET volume_ratio ==
            IF RLt(R(0), expected_volume)
            THEN RDiv(R(observed_volume), expected_volume) ELSE R(0)
        collapse == RLt(volume_ratio, Rat(1, 2))
    IN  [Delta(IF collapse THEN "VOLUME_COLLAPSE" ELSE "VOLUME_SPIKE",
               entity, at, ws, we, conf) EXCEPT
            !.expected_value = expected_volume,
            !.observed_value = R(observed_volume),
            !.z_score = z_score,
            !.deviation_score =
                IF RLt(R(0), expected_volume) THEN RAbs(RSub(R(1), volume_ratio)) ELSE R(0),
            !.is_collapse = collapse]

\* CoordinatedSilenceDelta and its __post_init__: the expected value text
\* reports len(silent_accounts), deviation_score is the coordination_score
CoordinatedSilenceDelta(entity, at, ws, we, silent_accounts, silence_start_times, time_spread_hours, coordination_score, conf) ==
    [silent_accounts |-> silent_accounts,
     silence_start_times |-> silence_start_times,
     time_spread_hours |-> time_spread_hours,
     coordination_score |-> coordination_score]
    @@ [Delta("COORDINATED_SILENCE", entity, at, ws, we, conf) EXCEPT
           !.expected_value = R(Len(silent_accounts)),
           !.deviation_score = coordination_score]

\* DeltaCluster(cluster_id, entity) with its field defaults
DeltaCluster(entity) ==
    [entity |-> entity, deltas |-> <<>>, delta_types |-> <<>>,
     first_delta_time |-> NoTime, last_delta_time |-> NoTime,
     combined_severity |-> "MEDIUM", combined_confidence |-> R(0),
     reinforcement_score |-> R(0), summary |-> <<>>]

severity_weights(s) == SeverityIndex(s)

RECURSIVE total_weight(_)
total_weight(ds) ==
    IF ds = <<>> THEN 0 ELSE severity_weights(Head(ds).severity) + total_weight(Tail(ds))

RECURSIVE weighted_confidence(_)
weighted_confidence(ds) ==
    IF ds = <<>> THEN R(0)
    ELSE RAdd(RMul(Head(ds).confidence, R(severity_weights(Head(ds).severity))),
              weighted_confidence(Tail(ds)))

\* the loop's max_severity: starts LOW, replaced by any strictly heavier severity
RECURSIVE max_severity(_, _)
max_severity(ds, acc) ==
    IF ds = <<>> THEN acc
    ELSE max_severity(Tail(ds),
             IF severity_weights(Head(ds).severity) > severity_weights(acc)
             THEN Head(ds).severity ELSE acc)

Min2(a, b) == IF a <= b THEN a ELSE b

\* Mutant: the severity is never escalated
KeepSeverity(maxSev, unique_types) == maxSev

\* "Boost severity if multiple delta types present"
BoostSeverity(maxSev, unique_types) ==
    IF unique_types >= 3 /\ maxSev # "CRITICAL"
    THEN DeltaSeverity[Min2(SeverityIndex(maxSev) + 1, Len(DeltaSeverity))]
    ELSE maxSev

\* Mutant: the combined confidence is the best member confidence, not the mean
RECURSIVE MaxConfidence(_)
MaxConfidence(ds) ==
    IF ds = <<>> THEN R(0) ELSE RMax(Head(ds).confidence, MaxConfidence(Tail(ds)))

\* weighted_confidence / total_weight if total_weight > 0 else 0
CombinedConfidence(ds) ==
    IF total_weight(ds) > 0
    THEN RDiv(weighted_confidence(ds), R(total_weight(ds)))
    ELSE R(0)

_recalculate_significance(c) ==
    IF c.deltas = <<>> THEN c
    ELSE LET unique_types == Cardinality(SeqToSet(c.delta_types))
         IN  [c EXCEPT
                !.combined_confidence = CombinedConfidence(c.deltas),
                !.combined_severity = BoostSeverity(max_severity(c.deltas, "LOW"), unique_types),
                !.reinforcement_score = RMin(R(1), Rat(unique_types, 4))]

add_delta(c, delta) ==
    _recalculate_significance(
        [c EXCEPT
           !.deltas = Append(@, delta),
           !.delta_types = Append(@, delta.delta_type),
           !.first_delta_time =
               IF @ = NoTime \/ delta.detected_at < @ THEN delta.detected_at ELSE @,
           !.last_delta_time =
               IF @ = NoTime \/ delta.detected_at > @ THEN delta.detected_at ELSE @])

----------------------------------------------------------------------------
(* models/event.py *)

\* list(EventSeverity), in definition order
EventSeverity == <<"NOISE", "MINOR", "NOTABLE", "SIGNIFICANT", "MAJOR">>

EventSeverityIndex(s) == CHOOSE i \in 1..Len(EventSeverity) : EventSeverity[i] = s

NoEvent == [raised |-> FALSE, made |-> FALSE]

\* The fields of DetectedEvent that from_delta / from_cluster compute
DetectedEvent(entity, classification, deltas, conf, fromCluster) ==
    [raised |-> FALSE, made |-> TRUE,
     entity |-> entity,
     event_type |-> classification.primary_type,
     classification |-> classification,
     source_deltas |-> deltas,
     source_cluster |-> fromCluster,
     severity |-> classification.severity,
     confidence |-> conf,
     title |-> <<>>]

from_delta(delta, classification, entity) ==
    DetectedEvent(entity, classification, <<delta>>, classification.primary_confidence, FALSE)

\* Mutant: the cluster event takes the classification's confidence unscaled
from_cluster_unscaled(c, classification) ==
    DetectedEvent(c.entity, classification, c.deltas, classification.primary_confidence, TRUE)

from_cluster(c, classification) ==
    DetectedEvent(c.entity, classification, c.deltas,
                  RMul(classification.primary_confidence, c.reinforcement_score), TRUE)

----------------------------------------------------------------------------
(* detection/classifier.py *)

\* The table, in insertion order (the order the subset search walks it)
DELTA_EVENT_MAPPINGS ==
    << [pattern |-> <<"TOPIC_ABSENCE">>,
        mappings |-> << <<"INFORMATION_SUPPRESSION", Rat(6, 10)>>, <<"PRE_ANNOUNCEMENT", Rat(3, 10)>> >>],
       [pattern |-> <<"VOICE_SILENCE">>,
        mappings |-> << <<"INSIDER_ACTIVITY", Rat(5, 10)>>, <<"DEPARTURE_SIGNAL", Rat(3, 10)>> >>],
       [pattern |-> <<"SENTIMENT_DECOUPLING">>,
        mappings |-> << <<"CONFIDENCE_LOSS", Rat(5, 10)>>, <<"SENTIMENT_SHIFT", Rat(4, 10)>> >>],
       [pattern |-> <<"VOLUME_COLLAPSE">>,
        mappings |-> << <<"INFORMATION_SUPPRESSION", Rat(4, 10)>>, <<"PRE_ANNOUNCEMENT", Rat(4, 10)>> >>],
       [pattern |-> <<"COORDINATED_SILENCE">>,
        mappings |-> << <<"COORDINATION_DETECTED", Rat(8, 10)>>, <<"INFORMATION_SUPPRESSION", Rat(6, 10)>> >>],
       [pattern |-> <<"TOPIC_ABSENCE", "VOICE_SILENCE">>,
        mappings |-> << <<"INFORMATION_SUPPRESSION", Rat(8, 10)>>, <<"CRISIS_EMERGING", Rat(5, 10)>> >>],
       [pattern |-> <<"SENTIMENT_DECOUPLING", "VOLUME_SPIKE">>,
        mappings |-> << <<"CRISIS_EMERGING", Rat(7, 10)>>, <<"SENTIMENT_SHIFT", Rat(5, 10)>> >>],
       [pattern |-> <<"VOICE_SILENCE", "SENTIMENT_DECOUPLING">>,
        mappings |-> << <<"INSIDER_ACTIVITY", Rat(7, 10)>>, <<"CONFIDENCE_LOSS", Rat(6, 10)>> >>] >>

\* tuple(sorted(set(types), key=lambda x: x.value))
RECURSIVE SortedByValue(_, _)
SortedByValue(S, i) ==
    IF i > Len(DeltaTypeByValue) THEN <<>>
    ELSE (IF DeltaTypeByValue[i] \in S THEN <<DeltaTypeByValue[i]>> ELSE <<>>)
         \o SortedByValue(S, i + 1)

\* DELTA_EVENT_MAPPINGS.get(delta_types): the row whose key is this very tuple
ExactRows(delta_types) ==
    {i \in 1..Len(DELTA_EVENT_MAPPINGS) : DELTA_EVENT_MAPPINGS[i].pattern = delta_types}

\* rows all of whose types occur in delta_types
SubsetRows(delta_types) ==
    {i \in 1..Len(DELTA_EVENT_MAPPINGS) :
        SeqToSet(DELTA_EVENT_MAPPINGS[i].pattern) \subseteq SeqToSet(delta_types)}

SetMin(S) == CHOOSE x \in S : \A y \in S : x <= y

\* the row _classify_from_pattern settles on; 0 when none
MatchedRow(delta_types) ==
    IF ExactRows(delta_types) # {} THEN SetMin(ExactRows(delta_types))
    ELSE IF SubsetRows(delta_types) # {} THEN SetMin(SubsetRows(delta_types))
    ELSE 0

\* max(deltas, key=severity index).severity
RECURSIVE MaxDeltaSeverity(_)
MaxDeltaSeverity(ds) ==
    IF Len(ds) = 1 THEN Head(ds).severity
    ELSE LET rest == MaxDeltaSeverity(Tail(ds))
         IN  IF SeverityIndex(Head(ds).severity) >= SeverityIndex(rest)
             THEN Head(ds).severity ELSE rest

_determine_severity(deltas) ==
    LET base_severity == EventSeverity[SeverityIndex(MaxDeltaSeverity(deltas)) + 1]
        idx == EventSeverityIndex(base_severity)
    IN  IF Len(deltas) >= 3 /\ idx < Len(EventSeverity)
        THEN EventSeverity[idx + 1]
        ELSE base_severity

_predict_direction(event_type) ==
    CASE event_type = "INFORMATION_SUPPRESSION" -> <<"down", Rat(6, 10)>>
      [] event_type = "CONFIDENCE_LOSS" -> <<"down", Rat(7, 10)>>
      [] event_type = "CRISIS_EMERGING" -> <<"down", Rat(8, 10)>>
      [] event_type = "DEPARTURE_SIGNAL" -> <<"down", Rat(5, 10)>>
      [] event_type = "INSIDER_ACTIVITY" -> <<"volatile", Rat(6, 10)>>
      [] event_type = "COORDINATION_DETECTED" -> <<"volatile", Rat(5, 10)>>
      [] event_type = "SENTIMENT_SHIFT" -> <<"volatile", Rat(5, 10)>>
      [] event_type = "PRE_ANNOUNCEMENT" -> <<"volatile", Rat(6, 10)>>
      [] OTHER -> <<"none", Rat(3, 10)>>

\* "Default to anomaly"
AnomalyClassification ==
    [raised |-> FALSE,
     primary_type |-> "ANOMALY_DETECTED",
     primary_confidence |-> Rat(3, 10),
     severity |-> "MINOR",
     severity_confidence |-> Rat(3, 10),
     predicted_direction |-> "none",
     direction_confidence |-> R(0)]

\* Mutant: the boosted confidence is not capped and the evidence adds to it
BoostedConfidenceAdded(base, avg_confidence) ==
    RAdd(base, RAdd(Rat(1, 2), RMul(avg_confidence, Rat(1, 2))))

\* min(0.95, primary_conf * (0.5 + avg_confidence * 0.5))
BoostedConfidence(base, avg_confidence) ==
    RMin(Rat(95, 100), RMul(base, RAdd(Rat(1, 2), RMul(avg_confidence, Rat(1, 2)))))

\* Mutant: an unmatched pattern is classified from the first row of the table
classify_first_row(delta_types, deltas) ==
    [raised |-> FALSE,
     primary_type |-> DELTA_EVENT_MAPPINGS[1].mappings[1][1],
     primary_confidence |-> DELTA_EVENT_MAPPINGS[1].mappings[1][2],
     severity |-> "MINOR",
     severity_confidence |-> Rat(3, 10),
     predicted_direction |-> "none",
     direction_confidence |-> R(0)]

\* A matched row with no deltas divides by len(deltas) = 0: ZeroDivisionError
_classify_from_pattern(delta_types, deltas) ==
    LET row == MatchedRow(delta_types)
    IN  IF row = 0 THEN AnomalyClassification
        ELSE IF Len(deltas) = 0 THEN [AnomalyClassification EXCEPT !.raised = TRUE]
        ELSE LET mappings == DELTA_EVENT_MAPPINGS[row].mappings
                 avg_confidence ==
                     RDiv(RSum([i \in 1..Len(deltas) |-> deltas[i].confidence]), R(Len(deltas)))
             IN  [raised |-> FALSE,
                  primary_type |-> mappings[1][1],
                  primary_confidence |-> BoostedConfidence(mappings[1][2], avg_confidence),
                  severity |-> _determine_severity(deltas),
                  severity_confidence |-> avg_confidence,
                  predicted_direction |-> _predict_direction(mappings[1][1])[1],
                  direction_confidence |-> _predict_direction(mappings[1][1])[2]]

classify_delta(delta) == _classify_from_pattern(<<delta.delta_type>>, <<delta>>)

classify_cluster(c) ==
    _classify_from_pattern(SortedByValue(SeqToSet(c.delta_types), 1), c.deltas)

\* the titles dict is keyed by the event type; the title is that template for entity
_generate_title(event_type, entity) == <<event_type, entity>>

RECURSIVE AddAll(_, _)
AddAll(c, ds) == IF ds = <<>> THEN c ELSE AddAll(add_delta(c, Head(ds)), Tail(ds))

NoCluster == [entity |-> "", deltas |-> <<>>, delta_types |-> <<>>,
              first_delta_time |-> NoTime, last_delta_time |-> NoTime,
              combined_severity |-> "", combined_confidence |-> R(0),
              reinforcement_score |-> R(0), summary |-> <<>>]

\* Raised marks an exception leaving create_event
Raised == [raised |-> TRUE, made |-> FALSE]

Titled(ev) == [ev EXCEPT !.title = _generate_title(ev.event_type, ev.entity)]

create_event(entity, deltas, c) ==
    IF c # NoCluster
    THEN IF classify_cluster(c).raised THEN Raised
         ELSE Titled(from_cluster(c, classify_cluster(c)))
    ELSE IF Len(deltas) = 1
    THEN IF classify_delta(deltas[1]).raised THEN Raised
         ELSE Titled(from_delta(deltas[1], classify_delta(deltas[1]), entity))
    ELSE LET synthetic_cluster == AddAll(DeltaCluster(entity), deltas)
         IN  IF classify_cluster(synthetic_cluster).raised THEN Raised
             ELSE Titled(from_cluster(synthetic_cluster, classify_cluster(synthetic_cluster)))

----------------------------------------------------------------------------
(* models/expectation.py, models/discourse.py *)

HourOf(t) == (t \div 60) % 24
WeekdayOf(t) == (t \div 1440) % 7

\* (b - a).total_seconds() / 3600
HoursBetween(a, b) == Rat(b - a, 60)

ExpectedTopic(topic_id, topic_name, expected_mention_count, mention_stddev, expected_sentiment, sentiment_stddev) ==
    [topic_id |-> topic_id, topic_name |-> topic_name,
     expected_mention_count |-> expected_mention_count, mention_stddev |-> mention_stddev,
     expected_sentiment |-> expected_sentiment, sentiment_stddev |-> sentiment_stddev,
     confidence |-> Rat(8, 10), sample_size |-> 0, absence_severity |-> Rat(5, 10)]

ExpectedVoice(account_id, username, expected_posts_per_day, post_stddev) ==
    [account_id |-> account_id, username |-> username,
     expected_posts_per_day |-> expected_posts_per_day, post_stddev |-> post_stddev,
     active_hours_utc |-> {}, active_days |-> {},
     silence_severity |-> Rat(5, 10), is_key_voice |-> FALSE]

expected_to_be_active(voice, check_time) ==
    /\ (voice.active_hours_utc = {} \/ HourOf(check_time) \in voice.active_hours_utc)
    /\ (voice.active_days = {} \/ WeekdayOf(check_time) \in voice.active_days)

\* the fields of BaselinePattern that have no default
BaselinePatternRequired == {"entity", "time_window"}

\* BaselinePattern(entity=..., time_window=...) with every other field at its default
BaselinePattern(entity, time_window) ==
    [entity |-> entity, time_window |-> time_window,
     avg_posts_per_window |-> R(0), post_stddev |-> R(0),
     hourly_volume_pattern |-> [h \in 0..23 |-> R(0)],
     daily_volume_pattern |-> [d \in 0..6 |-> R(0)],
     avg_sentiment |-> R(0), sentiment_stddev |-> R(0),
     typical_topics |-> <<>>, typical_voices |-> <<>>,
     voice_response_patterns |-> {},
     sample_start |-> NoTime, sample_end |-> NoTime, sample_size |-> 0,
     last_updated |-> NoTime]

\* None where a BaselinePattern is expected
NoBaseline == [entity |-> ""]

expected_volume_at(baseline, check_time) ==
    LET hour_factor == baseline.hourly_volume_pattern[HourOf(check_time)]
        day_factor == baseline.daily_volume_pattern[WeekdayOf(check_time)]
        avg_factor ==
            IF RLt(R(0), hour_factor) /\ RLt(R(0), day_factor)
            THEN RDiv(RAdd(hour_factor, day_factor), R(2))
            ELSE RMax(hour_factor, day_factor)
    IN  RMul(baseline.avg_posts_per_window, avg_factor)

\* float('inf') as a bound of post_count_range
Infinity == <<1, 0>>

\* DiscourseSnapshot: the fields the core reads.  topic_counts and
\* topic_sentiments are functions on the topic ids present; active_accounts is
\* the set of account ids of the Account list; post_counts[a] is the number of
\* snapshot.posts written by a; threads lists (root author, reply authors).
DiscourseSnapshot(entity, ws, we, total_posts, topic_counts, topic_sentiments, active_accounts, avg_sentiment) ==
    [entity |-> entity, window_start |-> ws, window_end |-> we,
     total_posts |-> total_posts, unique_authors |-> Cardinality(active_accounts),
     topic_counts |-> topic_counts, topic_sentiments |-> topic_sentiments,
     active_accounts |-> active_accounts, avg_sentiment |-> avg_sentiment,
     post_counts |-> [a \in active_accounts |-> 0], threads |-> <<>>]

\* DiscourseExpectation built with an explicit baseline
DiscourseExpectation(entity, ws, we, baseline) ==
    [raised |-> FALSE, entity |-> entity, window_start |-> ws, window_end |-> we,
     baseline |-> baseline, active_triggers |-> <<>>,
     expected_post_count |-> R(0), post_count_range |-> <<R(0), R(0)>>,
     expected_topics |-> <<>>, required_topics |-> <<>>,
     expected_voices |-> <<>>, required_voices |-> <<>>,
     expected_sentiment |-> R(0), sentiment_range |-> <<R(-1), R(1)>>,
     confidence |-> Rat(8, 10)]

----------------------------------------------------------------------------
(* detection/analyzers *)

\* snapshot.topic_counts.get(topic_id, 0)
TopicCount(snapshot, topic_id) ==
    IF topic_id \in DOMAIN snapshot.topic_counts THEN snapshot.topic_counts[topic_id] ELSE 0

is_topic_required(expectation, topic_id) == topic_id \in SeqToSet(expectation.required_topics)

\* Mutant: the comparison against the threshold admits equality
TopicIsAbsentOrAtThreshold(observed_count, expected_count, threshold) ==
    /\ ~RLt(expected_count, R(1))
    /\ RLe(RDiv(R(observed_count), expected_count), threshold)

\* the two tests of the loop body: expected_count >= 1 and ratio < threshold
TopicIsAbsent(observed_count, expected_count, threshold) ==
    /\ ~RLt(expected_count, R(1))
    /\ RLt(RDiv(R(observed_count), expected_count), threshold)

\* min(0.95, (threshold - ratio) / threshold + 0.3), +0.2 capped at 0.99 if required
TopicAbsenceConfidence(ratio, threshold, is_required) ==
    LET confidence == RMin(Rat(95, 100), RAdd(RDiv(RSub(threshold, ratio), threshold), Rat(3, 10)))
    IN  IF is_required THEN RMin(Rat(99, 100), RAdd(confidence, Rat(2, 10))) ELSE confidence

RECURSIVE TopicAbsenceLoop(_, _, _, _, _)
TopicAbsenceLoop(snapshot, expectation, threshold, now, i) ==
    IF i > Len(expectation.expected_topics) THEN <<>>
    ELSE LET expected_topic == expectation.expected_topics[i]
             observed_count == TopicCount(snapshot, expected_topic.topic_id)
             expected_count == expected_topic.expected_mention_count
             is_required == is_topic_required(expectation, expected_topic.topic_id)
         IN  (IF TopicIsAbsent(observed_count, expected_count, threshold)
              THEN <<TopicAbsenceDelta(snapshot.entity, now, snapshot.window_start,
                         snapshot.window_end, expected_topic.topic_id, expected_count,
                         observed_count, is_required,
                         TopicAbsenceConfidence(RDiv(R(observed_count), expected_count),
                                                threshold, is_required))>>
              ELSE <<>>)
             \o TopicAbsenceLoop(snapshot, expectation, threshold, now, i + 1)

TopicAbsenceAnalyzer_analyze(snapshot, expectation, threshold, now) ==
    TopicAbsenceLoop(snapshot, expectation, threshold, now, 1)

\* VolumeAnomalyAnalyzer defaults
spike_threshold == R(2)
volume_z_threshold == R(2)

\* min(0.95, 0.5 + (collapse_threshold - ratio) * 0.5) / min(0.95, 0.4 + (ratio - spike_threshold) * 0.1)
VolumeConfidence(is_collapse, ratio, collapse_threshold) ==
    IF is_collapse
    THEN RMin(Rat(95, 100), RAdd(Rat(1, 2), RMul(RSub(collapse_threshold, ratio), Rat(1, 2))))
    ELSE RMin(Rat(95, 100), RAdd(Rat(4, 10), RMul(RSub(ratio, spike_threshold), Rat(1, 10))))

_create_volume_delta(snapshot, expectation, is_collapse, ratio, z_score, collapse_threshold, now) ==
    VolumeAnomalyDelta(snapshot.entity, now, snapshot.window_start, snapshot.window_end,
                       expectation.expected_post_count, snapshot.total_posts, is_collapse,
                       z_score, VolumeConfidence(is_collapse, ratio, collapse_threshold))

\* Mutant: a ratio equal to the spike threshold already counts as a spike
VolumeSpikeAtThreshold(ratio, z_score) ==
    RLe(spike_threshold, ratio) /\ RLe(volume_z_threshold, RAbs(z_score))

\* ratio > spike_threshold and abs(z_score) >= z_threshold
VolumeSpike(ratio, z_score) ==
    RLt(spike_threshold, ratio) /\ RLe(volume_z_threshold, RAbs(z_score))

VolumeAnomalyAnalyzer_analyze(snapshot, expectation, collapse_threshold, now) ==
    LET expected_volume == expectation.expected_post_count
        observed_volume == snapshot.total_posts
        stddev == expectation.baseline.post_stddev
    IN  IF RLe(expected_volume, R(0)) THEN <<>>
        ELSE LET ratio == RDiv(R(observed_volume), expected_volume)
                 z_score ==
                     IF RLt(R(0), stddev)
                     THEN RDiv(RSub(R(observed_volume), expected_volume), stddev)
                     ELSE R(0)
             IN  IF RLt(ratio, collapse_threshold)
                 THEN <<_create_volume_delta(snapshot, expectation, TRUE, ratio, z_score,
                                             collapse_threshold, now)>>
                 ELSE IF VolumeSpike(ratio, z_score)
                 THEN <<_create_volume_delta(snapshot, expectation, FALSE, ratio, z_score,
                                             collapse_threshold, now)>>
                 ELSE <<>>

\* min(cap, base + (abs(z_score) - z_threshold) * 0.1)
SentimentConfidence(cap, base, z_score, z_threshold) ==
    RMin(cap, RAdd(base, RMul(RSub(RAbs(z_score), z_threshold), Rat(1, 10))))

\* a variant that measures the gap in units of one when the stddev is zero
_check_overall_unit_stddev(snapshot, expectation, z_threshold, now) ==
    LET observed == snapshot.avg_sentiment
        expected == expectation.expected_sentiment
        stddev == IF expectation.baseline.sentiment_stddev = R(0) THEN Rat(1, 10)
                  ELSE expectation.baseline.sentiment_stddev
        z_score == RDiv(RSub(observed, expected), stddev)
    IN  IF RLe(z_threshold, RAbs(z_score))
        THEN <<SentimentDecouplingDelta(snapshot.entity, now, snapshot.window_start,
                   snapshot.window_end, "", expected, observed, z_score,
                   SentimentConfidence(Rat(95, 100), Rat(4, 10), z_score, z_threshold))>>
        ELSE <<>>

_check_overall_sentiment(snapshot, expectation, z_threshold, now) ==
    LET observed == snapshot.avg_sentiment
        expected == expectation.expected_sentiment
        stddev == expectation.baseline.sentiment_stddev
    IN  IF stddev = R(0) THEN <<>>
        ELSE LET z_score == RDiv(RSub(observed, expected), stddev)
             IN  IF RLe(z_threshold, RAbs(z_score))
                 THEN <<SentimentDecouplingDelta(snapshot.entity, now, snapshot.window_start,
                            snapshot.window_end, "", expected, observed, z_score,
                            SentimentConfidence(Rat(95, 100), Rat(4, 10), z_score, z_threshold))>>
                 ELSE <<>>

RECURSIVE _check_topic_sentiments(_, _, _, _, _)
_check_topic_sentiments(snapshot, expectation, z_threshold, now, i) ==
    IF i > Len(expectation.expected_topics) THEN <<>>
    ELSE LET expected_topic == expectation.expected_topics[i]
             topic_id == expected_topic.topic_id
             expected == expected_topic.expected_sentiment
             stddev == expected_topic.sentiment_stddev
         IN  (IF topic_id \notin DOMAIN snapshot.topic_sentiments \/ stddev = R(0) THEN <<>>
              ELSE LET observed == snapshot.topic_sentiments[topic_id]
                       z_score == RDiv(RSub(observed, expected), stddev)
                   IN  IF RLe(z_threshold, RAbs(z_score))
                       THEN <<SentimentDecouplingDelta(snapshot.entity, now,
                                  snapshot.window_start, snapshot.window_end, topic_id,
                                  expected, observed, z_score,
                                  SentimentConfidence(Rat(9, 10), Rat(3, 10), z_score, z_threshold))>>
                       ELSE <<>>)
             \o _check_topic_sentiments(snapshot, expectation, z_threshold, now, i + 1)

SentimentDecouplingAnalyzer_analyze(snapshot, expectation, z_threshold, now) ==
    _check_overall_sentiment(snapshot, expectation, z_threshold, now)
    \o _check_topic_sentiments(snapshot, expectation, z_threshold, now, 1)

\* a variant that forgets the active accounts
KeepLastSeen(last_seen, snapshot) == last_seen

\* "Update last_seen for active accounts": last_seen[account_id] = now
UpdateLastSeen(last_seen, snapshot) ==
    [a \in DOMAIN last_seen |->
        IF a \in snapshot.active_accounts THEN snapshot.window_end ELSE last_seen[a]]

\* min(0.95, 0.4 + min(1, silence_hours / (2 * threshold)) * 0.3 + (0.3 if key voice))
VoiceSilenceConfidence(silence_hours, threshold_hours, is_key_voice) ==
    LET silence_factor == RMin(R(1), RDiv(silence_hours, RMul(threshold_hours, R(2))))
        key_voice_factor == IF is_key_voice THEN Rat(3, 10) ELSE R(0)
    IN  RMin(Rat(95, 100), RAdd(RAdd(Rat(4, 10), RMul(silence_factor, Rat(3, 10))), key_voice_factor))

\* the deltas of VoiceSilenceAnalyzer.analyze, last_seen being the map after the update
RECURSIVE VoiceSilenceLoop(_, _, _, _, _, _)
VoiceSilenceLoop(snapshot, expectation, last_seen, threshold_hours, now, i) ==
    IF i > Len(expectation.expected_voices) THEN <<>>
    ELSE LET expected_voice == expectation.expected_voices[i]
             account_id == expected_voice.account_id
             window_end == snapshot.window_end
             last_post == last_seen[account_id]
             silence_hours ==
                 IF last_post # NoTime THEN HoursBetween(last_post, window_end)
                 ELSE RMul(threshold_hours, R(2))
             expected_posts ==
                 RDiv(RMul(expected_voice.expected_posts_per_day,
                           HoursBetween(snapshot.window_start, snapshot.window_end)), R(24))
         IN  (IF /\ account_id \notin snapshot.active_accounts
                 /\ expected_to_be_active(expected_voice, window_end)
                 /\ RLe(threshold_hours, silence_hours)
              THEN <<VoiceSilenceDelta(snapshot.entity, now, snapshot.window_start,
                         snapshot.window_end, account_id, silence_hours, expected_posts,
                         last_post, expected_voice.is_key_voice,
                         VoiceSilenceConfidence(silence_hours, threshold_hours,
                                                expected_voice.is_key_voice))>>
              ELSE <<>>)
             \o VoiceSilenceLoop(snapshot, expectation, last_seen, threshold_hours, now, i + 1)

VoiceSilenceAnalyzer_analyze(snapshot, expectation, last_seen, threshold_hours, now) ==
    VoiceSilenceLoop(snapshot, expectation, UpdateLastSeen(last_seen, snapshot), threshold_hours, now, 1)

----------------------------------------------------------------------------
(* expectation/baseline_builder.py *)

\* the order in which topic ids and account ids are met inside one snapshot
TopicOrder == <<"t1", "t2">>
AccountOrder == <<"a1", "a2">>

\* Account.is_high_value() of the accounts of the model
HighValueAccounts == {"a1"}

\* topic_id.split(":")[-1]
TopicNameOf(topic_id) == topic_id

\* BaselineBuilder(min_samples=...)
min_samples == 2

\* resolution of the square root: sqrt is exact on squares of rationals and
\* rounded down to a multiple of 1 / (denominator * SqrtScale) otherwise
SqrtScale == 100

RECURSIVE ISqrtIn(_, _, _)
ISqrtIn(n, lo, hi) ==
    IF lo >= hi THEN lo
    ELSE LET mid == (lo + hi + 1) \div 2
         IN  IF mid * mid <= n THEN ISqrtIn(n, mid, hi) ELSE ISqrtIn(n, lo, mid - 1)

ISqrt(n) == ISqrtIn(n, 0, Min2(n, 46340))

RSqrt(x) == Rat(ISqrt(x[1] * x[2] * SqrtScale * SqrtScale), x[2] * SqrtScale)

\* statistics.mean
Mean(s) == RDiv(RSum(s), R(Len(s)))

RECURSIVE SumSqDev(_, _)
SumSqDev(s, m) ==
    IF s = <<>> THEN R(0)
    ELSE RAdd(RMul(RSub(Head(s), m), RSub(Head(s), m)), SumSqDev(Tail(s), m))

\* statistics.stdev (sample standard deviation, len >= 2)
Stdev(s) == RSqrt(RDiv(SumSqDev(s, Mean(s)), R(Len(s) - 1)))

\* sorted(snapshots, key=lambda s: s.window_start): stable insertion
RECURSIVE InsertByStart(_, _)
InsertByStart(sorted, x) ==
    IF sorted = <<>> THEN <<x>>
    ELSE IF Head(sorted).window_start <= x.window_start
         THEN <<Head(sorted)>> \o InsertByStart(Tail(sorted), x)
         ELSE <<x>> \o sorted

RECURSIVE SortedByStart(_)
SortedByStart(snapshots) ==
    IF snapshots = <<>> THEN <<>>
    ELSE InsertByStart(SortedByStart(SubSeq(snapshots, 1, Len(snapshots) - 1)),
                       snapshots[Len(snapshots)])

\* [s.total_posts for s in snapshots if bucket(s) = b], or [0]
RECURSIVE BucketCounts(_, _, _)
BucketCounts(snapshots, byDay, b) ==
    IF snapshots = <<>> THEN <<>>
    ELSE LET snap == Head(snapshots)
             key == IF byDay THEN WeekdayOf(snap.window_start) ELSE HourOf(snap.window_start)
         IN  (IF key = b THEN <<R(snap.total_posts)>> ELSE <<>>)
             \o BucketCounts(Tail(snapshots), byDay, b)

RECURSIVE RMaxOver(_, _)
RMaxOver(f, S) ==
    IF S = {} THEN R(0)
    ELSE LET x == CHOOSE y \in S : TRUE IN RMax(f[x], RMaxOver(f, S \ {x}))

VolumePattern(snapshots, byDay, buckets) ==
    LET avgs == [b \in buckets |->
                    LET counts == BucketCounts(snapshots, byDay, b)
                    IN  IF counts = <<>> THEN R(0) ELSE Mean(counts)]
        max_vol == RMaxOver(avgs, buckets)
    IN  IF RLt(R(0), max_vol) THEN [b \in buckets |-> RDiv(avgs[b], max_vol)] ELSE avgs

_compute_hourly_pattern(snapshots) == VolumePattern(snapshots, FALSE, 0..23)

_compute_daily_pattern(snapshots) == VolumePattern(snapshots, TRUE, 0..6)

RECURSIVE TotalPosts(_)
TotalPosts(snapshots) ==
    IF snapshots = <<>> THEN <<>>
    ELSE <<R(Head(snapshots).total_posts)>> \o TotalPosts(Tail(snapshots))

_compute_volume_stats(snapshots) ==
    LET volumes == TotalPosts(snapshots)
    IN  IF volumes = <<>> THEN <<R(0), R(0)>>
        ELSE <<Mean(volumes), IF Len(volumes) > 1 THEN Stdev(volumes) ELSE R(0)>>

\* topic_mentions[topic_id] / topic_sentiments[topic_id]: the values per snapshot
RECURSIVE TopicSeries(_, _, _)
TopicSeries(snapshots, topic_id, sentiments) ==
    IF snapshots = <<>> THEN <<>>
    ELSE LET snap == Head(snapshots)
             f == IF sentiments THEN snap.topic_sentiments ELSE snap.topic_counts
         IN  (IF topic_id \in DOMAIN f
              THEN <<IF sentiments THEN f[topic_id] ELSE R(f[topic_id])>> ELSE <<>>)
             \o TopicSeries(Tail(snapshots), topic_id, sentiments)

\* the keys of a dict filled snapshot by snapshot, in insertion order
RECURSIVE KeysInOrder(_, _, _, _)
KeysInOrder(snapshots, order, field, seen) ==
    IF snapshots = <<>> THEN <<>>
    ELSE LET present == IF field = "topics" THEN DOMAIN Head(snapshots).topic_counts
                        ELSE Head(snapshots).active_accounts
             IsNew(k) == k \in present /\ k \notin seen
             fresh == SelectSeq(order, IsNew)
         IN  fresh \o KeysInOrder(Tail(snapshots), order, field, seen \cup present)

\* list.sort(key=severity, reverse=True): stable, largest first
RECURSIVE InsertBySeverity(_, _, _)
InsertBySeverity(sorted, x, field) ==
    IF sorted = <<>> THEN <<x>>
    ELSE LET h == IF field = "topics" THEN Head(sorted).absence_severity
                  ELSE Head(sorted).silence_severity
             k == IF field = "topics" THEN x.absence_severity ELSE x.silence_severity
         IN  IF RLe(k, h) THEN <<Head(sorted)>> \o InsertBySeverity(Tail(sorted), x, field)
             ELSE <<x>> \o sorted

RECURSIVE SortedBySeverity(_, _)
SortedBySeverity(xs, field) ==
    IF xs = <<>> THEN <<>>
    ELSE InsertBySeverity(SortedBySeverity(SubSeq(xs, 1, Len(xs) - 1), field),
                          xs[Len(xs)], field)

TopicExpectation(snapshots, topic_id) ==
    LET counts == TopicSeries(snapshots, topic_id, FALSE)
        avg_count == Mean(counts)
        count_std == IF Len(counts) > 1 THEN Stdev(counts) ELSE R(0)
        found == TopicSeries(snapshots, topic_id, TRUE)
        sentiments == IF found = <<>> THEN <<R(0)>> ELSE found
        frequency_score == RMin(R(1), Rat(Len(counts), Len(snapshots)))
        consistency_score == RSub(R(1), RDiv(count_std, RAdd(avg_count, R(1))))
    IN  [ExpectedTopic(topic_id, TopicNameOf(topic_id), avg_count, count_std,
                       Mean(sentiments),
                       IF Len(sentiments) > 1 THEN Stdev(sentiments) ELSE R(0)) EXCEPT
            !.confidence = frequency_score,
            !.sample_size = Len(counts),
            !.absence_severity = RDiv(RAdd(frequency_score, consistency_score), R(2))]

RECURSIVE TopicExpectations(_, _)
TopicExpectations(snapshots, ids) ==
    IF ids = <<>> THEN <<>>
    ELSE (IF Len(TopicSeries(snapshots, Head(ids), FALSE)) < min_samples THEN <<>>
          ELSE <<TopicExpectation(snapshots, Head(ids))>>)
         \o TopicExpectations(snapshots, Tail(ids))

_compute_topic_expectations(snapshots) ==
    SortedBySeverity(
        TopicExpectations(snapshots, KeysInOrder(snapshots, TopicOrder, "topics", {})),
        "topics")

\* voice_activity[account_id]: the post counts of the snapshots it is active in
RECURSIVE VoiceActivity(_, _)
VoiceActivity(snapshots, account_id) ==
    IF snapshots = <<>> THEN <<>>
    ELSE (IF account_id \in Head(snapshots).active_accounts
          THEN <<R(Head(snapshots).post_counts[account_id])>> ELSE <<>>)
         \o VoiceActivity(Tail(snapshots), account_id)

VoiceExpectation(snapshots, account_id) ==
    LET activity == VoiceActivity(snapshots, account_id)
        presence_rate == Rat(Len(activity), Len(snapshots))
        high == account_id \in HighValueAccounts
    IN  [ExpectedVoice(account_id, account_id, RMul(Mean(activity), R(24)),
                       IF Len(activity) > 1 THEN Stdev(activity) ELSE R(0)) EXCEPT
            !.silence_severity =
                RMul(presence_rate, IF high THEN Rat(8, 10) ELSE Rat(3, 10)),
            !.is_key_voice = high]

RECURSIVE VoiceExpectations(_, _)
VoiceExpectations(snapshots, ids) ==
    IF ids = <<>> THEN <<>>
    ELSE (IF Len(VoiceActivity(snapshots, Head(ids))) < min_samples \div 2 THEN <<>>
          ELSE <<VoiceExpectation(snapshots, Head(ids))>>)
         \o VoiceExpectations(snapshots, Tail(ids))

_compute_voice_expectations(snapshots) ==
    SortedBySeverity(
        VoiceExpectations(snapshots, KeysInOrder(snapshots, AccountOrder, "voices", {})),
        "voices")

RECURSIVE PostedSentiments(_)
PostedSentiments(snapshots) ==
    IF snapshots = <<>> THEN <<>>
    ELSE (IF Head(snapshots).total_posts > 0 THEN <<Head(snapshots).avg_sentiment>> ELSE <<>>)
         \o PostedSentiments(Tail(snapshots))

_compute_sentiment_stats(snapshots) ==
    LET sentiments == PostedSentiments(snapshots)
    IN  IF sentiments = <<>> THEN <<R(0), Rat(1, 2)>>
        ELSE <<Mean(sentiments), IF Len(sentiments) > 1 THEN Stdev(sentiments) ELSE Rat(3, 10)>>

\* the number of replies by responder to threads rooted by author
RECURSIVE CountReplies(_, _, _)
CountReplies(threads, author, responder) ==
    IF threads = <<>> THEN 0
    ELSE LET IsResponder(r) == r = responder
         IN  (IF Head(threads).root = author
              THEN Len(SelectSeq(Head(threads).replies, IsResponder)) ELSE 0)
             + CountReplies(Tail(threads), author, responder)

RECURSIVE AllThreads(_)
AllThreads(snapshots) ==
    IF snapshots = <<>> THEN <<>> ELSE Head(snapshots).threads \o AllThreads(Tail(snapshots))

\* {author: [responders with at least two replies]} as a set of pairs
_compute_response_patterns(snapshots) ==
    {p \in SeqToSet(AccountOrder) \X SeqToSet(AccountOrder) :
        p[1] # p[2] /\ CountReplies(AllThreads(snapshots), p[1], p[2]) >= 2}

build_baseline(entity, snapshots, time_window, now) ==
    IF snapshots = <<>> THEN BaselinePattern(entity, time_window)
    ELSE LET sorted == SortedByStart(snapshots)
             volume == _compute_volume_stats(sorted)
             sentiment == _compute_sentiment_stats(sorted)
         IN  [BaselinePattern(entity, time_window) EXCEPT
                 !.avg_posts_per_window = volume[1],
                 !.post_stddev = volume[2],
                 !.hourly_volume_pattern = _compute_hourly_pattern(sorted),
                 !.daily_volume_pattern = _compute_daily_pattern(sorted),
                 !.avg_sentiment = sentiment[1],
                 !.sentiment_stddev = sentiment[2],
                 !.typical_topics = _compute_topic_expectations(sorted),
                 !.typical_voices = _compute_voice_expectations(sorted),
                 !.voice_response_patterns = _compute_response_patterns(sorted),
                 !.sample_start = sorted[1].window_start,
                 !.sample_end = sorted[Len(sorted)].window_end,
                 !.sample_size = Len(sorted),
                 !.last_updated = now]

\* Mutant: the weights of the old and the new value are exchanged
DecayedSwapped(old, new, decay) ==
    RAdd(RMul(old, RSub(R(1), decay)), RMul(new, decay))

\* old * decay + new * (1 - decay)
Decayed(old, new, decay) ==
    RAdd(RMul(old, decay), RMul(new, RSub(R(1), decay)))

\* the element of a list with the given id (ids are unique in a list)
ById(xs, field, id) ==
    LET i == CHOOSE j \in 1..Len(xs) :
                 (IF field = "topics" THEN xs[j].topic_id ELSE xs[j].account_id) = id
    IN  xs[i]

IdsOf(xs, field) ==
    {IF field = "topics" THEN xs[i].topic_id ELSE xs[i].account_id : i \in 1..Len(xs)}

\* Mutant: a topic met only in the old baseline is carried over undecayed
KeptOldTopic(old, decay) == old

\* old.expected_mention_count *= decay
DecayedOldTopic(old, decay) ==
    [old EXCEPT !.expected_mention_count = RMul(old.expected_mention_count, decay)]

MergedTopic(existing, new, decay, topic_id) ==
    IF topic_id \in IdsOf(existing, "topics") /\ topic_id \in IdsOf(new, "topics")
    THEN LET old == ById(existing, "topics", topic_id)
             current == ById(new, "topics", topic_id)
         IN  [ExpectedTopic(topic_id, current.topic_name,
                  Decayed(old.expected_mention_count, current.expected_mention_count, decay),
                  Decayed(old.mention_stddev, current.mention_stddev, decay),
                  Decayed(old.expected_sentiment, current.expected_sentiment, decay),
                  Decayed(old.sentiment_stddev, current.sentiment_stddev, decay)) EXCEPT
                 !.sample_size = old.sample_size + current.sample_size]
    ELSE IF topic_id \in IdsOf(existing, "topics")
    THEN DecayedOldTopic(ById(existing, "topics", topic_id), decay)
    ELSE ById(new, "topics", topic_id)

\* the merged list, visiting set(existing ids) | set(new ids) in the given order
_merge_topics(existing, new, decay, order) ==
    [i \in 1..Len(order) |-> MergedTopic(existing, new, decay, order[i])]

MergedVoice(existing, new, decay, account_id) ==
    IF account_id \in IdsOf(existing, "voices") /\ account_id \in IdsOf(new, "voices")
    THEN LET old == ById(existing, "voices", account_id)
             current == ById(new, "voices", account_id)
         IN  [ExpectedVoice(account_id, current.username,
                  Decayed(old.expected_posts_per_day, current.expected_posts_per_day, decay),
                  Decayed(old.post_stddev, current.post_stddev, decay)) EXCEPT
                 !.is_key_voice = old.is_key_voice \/ current.is_key_voice,
                 !.silence_severity = RMax(old.silence_severity, current.silence_severity)]
    ELSE IF account_id \in IdsOf(existing, "voices")
    THEN ById(existing, "voices", account_id)
    ELSE ById(new, "voices", account_id)

_merge_voices(existing, new, decay, order) ==
    [i \in 1..Len(order) |-> MergedVoice(existing, new, decay, order[i])]

\* the orders in which a set can be iterated
Orderings(S) ==
    {o \in [1..Cardinality(S) -> S] : \A i, j \in 1..Cardinality(S) : o[i] = o[j] => i = j}

\* update_baseline's return value.  new_baseline stands for the local
\* new_baseline = self.build_baseline(existing.entity, new_snapshots,
\* existing.time_window); topic_order and voice_order are the iteration orders
\* of the two id sets.
update_baseline(existing, new_snapshots, new_baseline, decay_factor, now, topic_order, voice_order) ==
    IF new_snapshots = <<>> THEN existing
    ELSE [BaselinePattern(existing.entity, existing.time_window) EXCEPT
             !.avg_posts_per_window =
                 Decayed(existing.avg_posts_per_window,
                         new_baseline.avg_posts_per_window, decay_factor),
             !.post_stddev =
                 Decayed(existing.post_stddev, new_baseline.post_stddev, decay_factor),
             !.hourly_volume_pattern =
                 [i \in 0..23 |-> Decayed(existing.hourly_volume_pattern[i],
                                          new_baseline.hourly_volume_pattern[i],
                                          decay_factor)],
             !.daily_volume_pattern =
                 [i \in 0..6 |-> Decayed(existing.daily_volume_pattern[i],
                                         new_baseline.daily_volume_pattern[i],
                                         decay_factor)],
             !.avg_sentiment =
                 Decayed(existing.avg_sentiment, new_baseline.avg_sentiment, decay_factor),
             !.sentiment_stddev =
                 Decayed(existing.sentiment_stddev, new_baseline.sentiment_stddev,
                         decay_factor),
             !.typical_topics =
                 _merge_topics(existing.typical_topics, new_baseline.typical_topics,
                               decay_factor, topic_order),
             !.typical_voices =
                 _merge_voices(existing.typical_voices, new_baseline.typical_voices,
                               decay_factor, voice_order),
             !.sample_start = existing.sample_start,
             !.sample_end = new_snapshots[Len(new_snapshots)].window_end,
             !.sample_size = existing.sample_size + Len(new_snapshots),
             !.last_updated = now]

\* the existing baseline after the call: the topics met only in it were
\* decayed in place
ExistingAfterUpdate(existing, new_snapshots, new_baseline, decay_factor) ==
    IF new_snapshots = <<>> THEN existing
    ELSE [existing EXCEPT !.typical_topics =
             [i \in 1..Len(existing.typical_topics) |->
                 IF existing.typical_topics[i].topic_id
                        \in IdsOf(new_baseline.typical_topics, "topics")
                 THEN existing.typical_topics[i]
                 ELSE DecayedOldTopic(existing.typical_topics[i], decay_factor)]]

----------------------------------------------------------------------------
(* models/expectation.py: triggers; expectation/context_triggers.py;        *)
(* expectation/generator.py                                                 *)

\* ContextTrigger: the fields that decide activity and modify an expectation
ContextTrigger(trigger_id, entity, start_time, end_time, volume_multiplier, sentiment_shift, expected_new_topics, required_voices) ==
    [trigger_id |-> trigger_id, entity |-> entity,
     start_time |-> start_time, end_time |-> end_time,
     volume_multiplier |-> volume_multiplier, sentiment_shift |-> sentiment_shift,
     expected_new_topics |-> expected_new_topics, required_voices |-> required_voices]

is_active(trigger, check_time) ==
    /\ ~(trigger.start_time # NoTime /\ check_time < trigger.start_time)
    /\ ~(trigger.end_time # NoTime /\ check_time > trigger.end_time)

\* get_expected_topic(topic_id) is not None
HasExpectedTopic(expectation, topic_id) ==
    \E i \in 1..Len(expectation.expected_topics) :
        expectation.expected_topics[i].topic_id = topic_id

RECURSIVE AddNewTopics(_, _)
AddNewTopics(expectation, topic_ids) ==
    IF topic_ids = <<>> THEN expectation
    ELSE AddNewTopics(
            IF HasExpectedTopic(expectation, Head(topic_ids)) THEN expectation
            ELSE [expectation EXCEPT !.expected_topics =
                     Append(@, [ExpectedTopic(Head(topic_ids), Head(topic_ids), R(10), R(5),
                                              R(0), Rat(3, 10)) EXCEPT
                                   !.absence_severity = Rat(7, 10)])],
            Tail(topic_ids))

apply_trigger(expectation, trigger) ==
    AddNewTopics(
        [expectation EXCEPT
            !.active_triggers = Append(@, trigger),
            !.expected_post_count = RMul(@, trigger.volume_multiplier),
            !.post_count_range = <<RMul(@[1], trigger.volume_multiplier),
                                   RMul(@[2], trigger.volume_multiplier)>>,
            !.expected_sentiment = RAdd(@, trigger.sentiment_shift),
            !.required_voices = @ \o trigger.required_voices],
        trigger.expected_new_topics)

\* TriggerManager state: active_triggers by entity and scheduled_triggers
TriggerManager(entities) ==
    [active_triggers |-> [e \in entities |-> <<>>], scheduled_triggers |-> <<>>]

\* add_trigger; now is datetime.utcnow()
add_trigger(tm, trigger, now) ==
    IF trigger.start_time # NoTime /\ trigger.start_time > now
    THEN [tm EXCEPT !.scheduled_triggers = Append(@, trigger)]
    ELSE [tm EXCEPT !.active_triggers[trigger.entity] = Append(@, trigger)]

RECURSIVE AddTriggers(_, _, _)
AddTriggers(tm, triggers, now) ==
    IF triggers = <<>> THEN tm
    ELSE AddTriggers(add_trigger(tm, Head(triggers), now), Tail(triggers), now)

\* _activate_scheduled_triggers(at_time); utcnow is the clock add_trigger reads
_activate_scheduled_triggers(tm, at_time, utcnow) ==
    LET Due(t) == t.start_time # NoTime /\ t.start_time <= at_time
        NotDue(t) == ~Due(t)
        newly_active == SelectSeq(tm.scheduled_triggers, Due)
        still_scheduled == SelectSeq(tm.scheduled_triggers, NotDue)
    IN  AddTriggers([tm EXCEPT !.scheduled_triggers = still_scheduled], newly_active, utcnow)

_cleanup_expired_triggers(tm, entity, at_time) ==
    LET Active(t) == is_active(t, at_time)
    IN  [tm EXCEPT !.active_triggers[entity] = SelectSeq(@, Active)]

\* get_active_triggers(entity, at_time): the returned list and the manager after
get_active_triggers(tm, entity, at_time, utcnow) ==
    LET Active(t) == is_active(t, at_time)
        activated == _activate_scheduled_triggers(tm, at_time, utcnow)
    IN  [active |-> SelectSeq(activated.active_triggers[entity], Active),
         manager |-> _cleanup_expired_triggers(activated, entity, at_time)]

\* "Combine effects (multiplicative for volume, additive for sentiment)"
RECURSIVE CombinedVolume(_)
CombinedVolume(triggers) ==
    IF triggers = <<>> THEN R(1)
    ELSE RMul(CombinedVolume(SubSeq(triggers, 1, Len(triggers) - 1)),
              triggers[Len(triggers)].volume_multiplier)

RECURSIVE CombinedSentiment(_)
CombinedSentiment(triggers) ==
    IF triggers = <<>> THEN R(0)
    ELSE RAdd(CombinedSentiment(SubSeq(triggers, 1, Len(triggers) - 1)),
              triggers[Len(triggers)].sentiment_shift)

\* summarize_active_triggers(entity): the summary and the manager after; the
\* triggers are those of get_active_triggers(entity) at utcnow
summarize_active_triggers(tm, entity, utcnow) ==
    LET got == get_active_triggers(tm, entity, utcnow, utcnow)
    IN  [active_count |-> Len(got.active),
         triggers |-> got.active,
         combined_volume_multiplier |-> CombinedVolume(got.active),
         combined_sentiment_shift |-> CombinedSentiment(got.active),
         manager |-> got.manager]

RECURSIVE TopicIdsOf(_)
TopicIdsOf(topics) ==
    IF topics = <<>> THEN <<>> ELSE <<Head(topics).topic_id>> \o TopicIdsOf(Tail(topics))

RECURSIVE AccountIdsOf(_)
AccountIdsOf(voices) ==
    IF voices = <<>> THEN <<>> ELSE <<Head(voices).account_id>> \o AccountIdsOf(Tail(voices))

_expectation_from_baseline(entity, baseline, window_start, window_end) ==
    LET expected_volume == expected_volume_at(baseline, window_start)
        two_sigma == RMul(R(2), baseline.post_stddev)
        Confident(t) == RLt(Rat(5, 10), t.confidence)
        ActiveNow(v) == expected_to_be_active(v, window_start)
        Important(t) == RLt(Rat(7, 10), t.absence_severity)
        Key(v) == v.is_key_voice
        expected_topics == SelectSeq(baseline.typical_topics, Confident)
        expected_voices == SelectSeq(baseline.typical_voices, ActiveNow)
    IN  [DiscourseExpectation(entity, window_start, window_end, baseline) EXCEPT
            !.expected_post_count = expected_volume,
            !.post_count_range = <<RMax(R(0), RSub(expected_volume, two_sigma)),
                                   RAdd(expected_volume, two_sigma)>>,
            !.expected_topics = expected_topics,
            !.required_topics = TopicIdsOf(SelectSeq(expected_topics, Important)),
            !.expected_voices = expected_voices,
            !.required_voices = AccountIdsOf(SelectSeq(expected_voices, Key)),
            !.expected_sentiment = baseline.avg_sentiment,
            !.sentiment_range =
                <<RSub(baseline.avg_sentiment, RMul(R(2), baseline.sentiment_stddev)),
                  RAdd(baseline.avg_sentiment, RMul(R(2), baseline.sentiment_stddev))>>,
            !.confidence = RMin(Rat(9, 10), Rat(baseline.sample_size, 100))]

\* an exception leaving the generator
RaisedTypeError == [raised |-> TRUE, error |-> "TypeError"]

\* the keyword arguments of DiscourseExpectation.baseline's default factory,
\* lambda: BaselinePattern(entity="")
DefaultFactoryArguments == {"entity"}

\* DiscourseExpectation(...) built without a baseline argument: the default
\* factory runs, and BaselinePattern raises TypeError for a missing required
\* argument
_empty_expectation(entity, window_start, window_end) ==
    IF BaselinePatternRequired \subseteq DefaultFactoryArguments
    THEN [DiscourseExpectation(entity, window_start, window_end,
                               BaselinePattern("", NoTime)) EXCEPT
             !.expected_post_count = R(0),
             !.post_count_range = <<R(0), Infinity>>,
             !.expected_sentiment = R(0),
             !.sentiment_range = <<R(-1), R(1)>>,
             !.confidence = Rat(1, 10)]
    ELSE RaisedTypeError

RECURSIVE ApplyTriggers(_, _)
ApplyTriggers(expectation, triggers) ==
    IF triggers = <<>> THEN expectation
    ELSE ApplyTriggers(apply_trigger(expectation, Head(triggers)), Tail(triggers))

\* generate_expectation: the returned expectation (or the exception) and the
\* trigger manager after the call
generate_expectation(baselines, tm, entity, window_start, window_end, utcnow) ==
    IF baselines[entity] = NoBaseline
    THEN [result |-> _empty_expectation(entity, window_start, window_end), manager |-> tm]
    ELSE LET got == get_active_triggers(tm, entity, window_start, utcnow)
         IN  [result |-> ApplyTriggers(
                            _expectation_from_baseline(entity, baselines[entity],
                                                       window_start, window_end),
                            got.active),
              manager |-> got.manager]

----------------------------------------------------------------------------
(* detection/delta_detector.py *)

\* DetectionConfig()
DetectionConfig ==
    [topic_absence_threshold |-> Rat(3, 10),
     voice_silence_threshold_hours |-> R(24),
     sentiment_deviation_threshold |-> R(2),
     volume_collapse_threshold |-> Rat(1, 2),
     min_delta_confidence |-> Rat(1, 2),
     cluster_window_minutes |-> 60,
     min_cluster_size |-> 2]

\* a variant that grades the deviation alone
SeverityOfDeviation(delta) ==
    IF RLe(Rat(8, 10), delta.deviation_score) THEN "CRITICAL"
    ELSE IF RLe(Rat(6, 10), delta.deviation_score) THEN "HIGH"
    ELSE IF RLe(Rat(4, 10), delta.deviation_score) THEN "MEDIUM"
    ELSE "LOW"

_calculate_severity(delta) ==
    LET score == RMul(delta.deviation_score, delta.confidence)
    IN  IF RLe(Rat(8, 10), score) THEN "CRITICAL"
        ELSE IF RLe(Rat(6, 10), score) THEN "HIGH"
        ELSE IF RLe(Rat(4, 10), score) THEN "MEDIUM"
        ELSE "LOW"

\* sorted(entity_deltas, key=lambda d: d.detected_at): stable insertion
RECURSIVE InsertByDetected(_, _)
InsertByDetected(sorted, x) ==
    IF sorted = <<>> THEN <<x>>
    ELSE IF Head(sorted).detected_at <= x.detected_at
         THEN <<Head(sorted)>> \o InsertByDetected(Tail(sorted), x)
         ELSE <<x>> \o sorted

RECURSIVE SortedByDetected(_)
SortedByDetected(ds) ==
    IF ds = <<>> THEN <<>>
    ELSE InsertByDetected(SortedByDetected(SubSeq(ds, 1, Len(ds) - 1)), ds[Len(ds)])

\* _summarize_cluster: the numbers its text reports
_summarize_cluster(c) == <<Len(c.deltas), c.entity, c.combined_severity>>

\* "Finalize current cluster if big enough"
Finalized(clusters, current, config) ==
    IF current # NoCluster /\ Len(current.deltas) >= config.min_cluster_size
    THEN Append(clusters, [current EXCEPT !.summary = _summarize_cluster(current)])
    ELSE clusters

\* a variant that never starts a second cluster
JoinsAlways(current, delta, config) == TRUE

\* delta.detected_at - current_cluster.last_delta_time <= window
Joins(current, delta, config) ==
    /\ current.last_delta_time # NoTime
    /\ delta.detected_at - current.last_delta_time <= config.cluster_window_minutes

\* the loop of _detect_clusters over the sorted deltas
RECURSIVE ClusterLoop(_, _, _, _, _)
ClusterLoop(sorted, current, clusters, entity, config) ==
    IF sorted = <<>> THEN Finalized(clusters, current, config)
    ELSE IF current = NoCluster
    THEN ClusterLoop(Tail(sorted), add_delta(DeltaCluster(entity), Head(sorted)),
                     clusters, entity, config)
    ELSE IF Joins(current, Head(sorted), config)
    THEN ClusterLoop(Tail(sorted), add_delta(current, Head(sorted)), clusters, entity, config)
    ELSE ClusterLoop(Tail(sorted), add_delta(DeltaCluster(entity), Head(sorted)),
                     Finalized(clusters, current, config), entity, config)

_detect_clusters(recent_deltas, entity, config) ==
    LET OfEntity(d) == d.entity = entity
        entity_deltas == SelectSeq(recent_deltas, OfEntity)
    IN  IF Len(entity_deltas) < config.min_cluster_size THEN <<>>
        ELSE ClusterLoop(SortedByDetected(entity_deltas), NoCluster, <<>>, entity, config)

\* DeltaDetector state: the voice analyzer's last_seen and the two delta lists
DeltaDetector(accounts) ==
    [last_seen |-> [a \in accounts |-> NoTime], recent_deltas |-> <<>>, delta_history |-> <<>>]

RECURSIVE WithSeverity(_)
WithSeverity(ds) ==
    IF ds = <<>> THEN <<>>
    ELSE <<[Head(ds) EXCEPT !.severity = _calculate_severity(Head(ds))]>>
         \o WithSeverity(Tail(ds))

\* detect(snapshot, expectation) for an expectation that was given or
\* generated: the returned deltas, the clusters handed to the callback, and
\* the detector after the call.  now is datetime.utcnow().
detect(detector, snapshot, expectation, config, now) ==
    IF expectation.raised THEN [raised |-> TRUE, deltas |-> <<>>, clusters |-> <<>>,
                                detector |-> detector]
    ELSE LET found ==
                 TopicAbsenceAnalyzer_analyze(snapshot, expectation,
                                              config.topic_absence_threshold, now)
                 \o VoiceSilenceAnalyzer_analyze(snapshot, expectation, detector.last_seen,
                                                 config.voice_silence_threshold_hours, now)
                 \o SentimentDecouplingAnalyzer_analyze(snapshot, expectation,
                                                        config.sentiment_deviation_threshold, now)
                 \o VolumeAnomalyAnalyzer_analyze(snapshot, expectation,
                                                  config.volume_collapse_threshold, now)
             Confident(d) == RLe(config.min_delta_confidence, d.confidence)
             deltas == WithSeverity(SelectSeq(found, Confident))
             recent == detector.recent_deltas \o deltas
         IN  [raised |-> FALSE,
              deltas |-> deltas,
              clusters |-> _detect_clusters(recent, snapshot.entity, config),
              detector |-> [last_seen |-> UpdateLastSeen(detector.last_seen, snapshot),
                            recent_deltas |-> recent,
                            delta_history |-> detector.delta_history \o deltas]]

\* None where a delta is expected
NoDelta == [delta_type |-> "NONE"]

RECURSIVE SubjectsOf(_)
SubjectsOf(ds) == IF ds = <<>> THEN <<>> ELSE <<Head(ds).subject>> \o SubjectsOf(Tail(ds))

RECURSIVE LastPostTimesOf(_)
LastPostTimesOf(ds) ==
    IF ds = <<>> THEN <<>> ELSE <<Head(ds).last_post_time>> \o LastPostTimesOf(Tail(ds))

\* detect_coordinated_silence(snapshot, expectation): the spread is taken over
\* the last_post_time of every recent VoiceSilence delta of the entity that
\* has one.  now is datetime.utcnow().
detect_coordinated_silence(detector, snapshot, now) ==
    LET Silent(d) == d.delta_type = "VOICE_SILENCE" /\ d.entity = snapshot.entity
        HasTime(d) == d.last_post_time # NoTime
        silent_deltas == SelectSeq(detector.recent_deltas, Silent)
        silence_times == LastPostTimesOf(SelectSeq(silent_deltas, HasTime))
        times == SeqToSet(silence_times)
        min_time == CHOOSE t \in times : \A u \in times : t <= u
        max_time == CHOOSE t \in times : \A u \in times : u <= t
        spread_hours == HoursBetween(min_time, max_time)
        coordination_score == RSub(R(1), RDiv(spread_hours, R(6)))
    IN  IF Len(silent_deltas) < 2 THEN NoDelta
        ELSE IF silence_times = <<>> THEN NoDelta
        ELSE IF RLt(spread_hours, R(6))
        THEN CoordinatedSilenceDelta(snapshot.entity, now, snapshot.window_start,
                 snapshot.window_end, SubjectsOf(silent_deltas), silence_times,
                 spread_hours, coordination_score, RMul(coordination_score, Rat(8, 10)))
        ELSE NoDelta

\* cleanup_old_deltas(max_age_hours): only recent_deltas is rebuilt; now is
\* datetime.utcnow()
cleanup_old_deltas(detector, max_age_hours, now) ==
    LET cutoff == now - max_age_hours * 60
        Kept(d) == d.detected_at >= cutoff
    IN  [detector EXCEPT !.recent_deltas = SelectSeq(detector.recent_deltas, Kept)]

\* a variant that hands back every recent delta, whatever the filters
AllRecentDeltas(detector, entity, delta_type, min_severity) == detector.recent_deltas

\* get_recent_deltas(entity, delta_type, min_severity): "" stands for a filter
\* that is None or empty, which "if entity:" skips
get_recent_deltas(detector, entity, delta_type, min_severity) ==
    LET OfEntity(d) == entity = "" \/ d.entity = entity
        OfType(d) == delta_type = "" \/ d.delta_type = delta_type
        Severe(d) == IF min_severity = "" THEN TRUE
                     ELSE SeverityIndex(d.severity) >= SeverityIndex(min_severity)
    IN  SelectSeq(SelectSeq(SelectSeq(detector.recent_deltas, OfEntity), OfType), Severe)

\* counts[name] = counts.get(name, 0) + 1 over the names in order
RECURSIVE Tally(_)
Tally(names) ==
    IF names = <<>> THEN <<>>
    ELSE LET counts == Tally(SubSeq(names, 1, Len(names) - 1))
             name == names[Len(names)]
             before == IF name \in DOMAIN counts THEN counts[name] ELSE 0
         IN  [n \in DOMAIN counts \cup {name} |-> IF n = name THEN before + 1 ELSE counts[n]]

\* get_delta_statistics(entity)
get_delta_statistics(detector, entity) ==
    LET deltas == get_recent_deltas(detector, entity, "", "")
    IN  [entity |-> entity,
         total_deltas |-> Len(deltas),
         by_type |-> Tally([i \in 1..Len(deltas) |-> deltas[i].delta_type]),
         by_severity |-> Tally([i \in 1..Len(deltas) |-> deltas[i].severity]),
         avg_confidence |-> IF deltas # <<>>
                            THEN RDiv(RSum([i \in 1..Len(deltas) |-> deltas[i].confidence]),
                                      R(Len(deltas)))
                            ELSE R(0)]

----------------------------------------------------------------------------
(* The parts of the state a specification does not exercise stay as built *)

Accounts == {"a1", "a2"}

NoSnapshot == [entity |-> ""]

IdleEvents ==
    /\ cluster = NoCluster
    /\ prevCluster = NoCluster
    /\ event = NoEvent
    /\ eventInput = "none"

IdleBaseline ==
    /\ history = <<>>
    /\ existingBaseline = NoBaseline
    /\ prevExisting = NoBaseline
    /\ newSnapshots = <<>>
    /\ decayFactor = Rat(95, 100)
    /\ merged = NoBaseline

Entities == {"ACME", "GLOBEX"}

NotCalled == [called |-> FALSE]

NotQueried == [op |-> "none"]

\* a generator without baselines and triggers, a detector that has seen nothing
IdleSystem ==
    /\ clock = 0
    /\ loadedBaselines = [e \in Entities |-> NoBaseline]
    /\ triggerManager = TriggerManager(Entities)
    /\ generated = NotCalled
    /\ queried = NotQueried
    /\ sharedDetector = DeltaDetector(Accounts)
    /\ returned = NotCalled
    /\ alone = [e \in Entities |-> DeltaDetector(Accounts)]
    /\ aloneReturned = NotCalled
    /\ processed = <<>>

IdleAnalyze ==
    /\ detConfig = DetectionConfig
    /\ azSnapshot = NoSnapshot
    /\ azExpectation = NoSnapshot
    /\ lastSeen = [a \in Accounts |-> NoTime]
    /\ analyzer = "none"
    /\ azDeltas = <<>>

----------------------------------------------------------------------------
(* Clusters and events: add_delta and create_event applied to drawn deltas *)

MaxDeltas == 3

EventEntity == "ACME"

HarnessTypes ==
    {"TOPIC_ABSENCE", "VOICE_SILENCE", "SENTIMENT_DECOUPLING", "VOLUME_SPIKE", "NETWORK_BREAK"}

\* (severity, confidence) of the drawn deltas
HarnessSevConf == {<<"LOW", R(0)>>, <<"HIGH", R(1)>>, <<"CRITICAL", Rat(4, 5)>>}

DeltaPool ==
    {[Delta(t, EventEntity, 0, 0, 0, sc[2]) EXCEPT !.severity = sc[1]] :
        t \in HarnessTypes, sc \in HarnessSevConf}

InitEvents ==
    /\ cluster = DeltaCluster(EventEntity)
    /\ prevCluster = DeltaCluster(EventEntity)
    /\ event = NoEvent
    /\ eventInput = "none"
    /\ IdleAnalyze
    /\ IdleBaseline
    /\ IdleSystem

\* cluster.add_delta(d)
AddDelta ==
    \E d \in DeltaPool :
        /\ Len(cluster.deltas) < MaxDeltas
        /\ prevCluster' = cluster
        /\ cluster' = add_delta(cluster, d)
        /\ event' = NoEvent
        /\ eventInput' = "none"
        /\ UNCHANGED <<varsAnalyze, varsBaseline, varsSystem>>

\* create_event(entity, deltas) with no cluster
CreateEventFromDeltas ==
    /\ eventInput = "none"
    /\ event' = create_event(EventEntity, cluster.deltas, NoCluster)
    /\ eventInput' = "deltas"
    /\ UNCHANGED <<cluster, prevCluster>>
    /\ UNCHANGED <<varsAnalyze, varsBaseline, varsSystem>>

\* create_event(entity, deltas, cluster)
CreateEventFromCluster ==
    /\ eventInput = "none"
    /\ event' = create_event(EventEntity, cluster.deltas, cluster)
    /\ eventInput' = "cluster"
    /\ UNCHANGED <<cluster, prevCluster>>
    /\ UNCHANGED <<varsAnalyze, varsBaseline, varsSystem>>

NextEvents == AddDelta \/ CreateEventFromDeltas \/ CreateEventFromCluster

SpecEvents == InitEvents /\ [][NextEvents]_vars

----------------------------------------------------------------------------
(* Analyzers: each analyze applied to a drawn azSnapshot and azExpectation *)

MaxPosts == 24
MaxMentions == 4

AnalyzeEntity == "ACME"

\* the second tracked topic: ten mentions expected, three observed
SecondTopic == ExpectedTopic("t2", "t2", R(10), R(2), Rat(1, 5), Rat(3, 10))

\* (topic_absence_threshold, volume_collapse_threshold) of the drawn configs
DrawnThresholds == {<<Rat(3, 10), Rat(1, 2)>>, <<Rat(1, 2), Rat(3, 4)>>}

DrawnVoice ==
    [ExpectedVoice("a1", "a1", R(4), R(1)) EXCEPT !.is_key_voice = TRUE]

InitAnalyze ==
    /\ IdleEvents
    /\ IdleBaseline
    /\ IdleSystem
    /\ \E th \in DrawnThresholds :
          detConfig = [DetectionConfig EXCEPT !.topic_absence_threshold = th[1],
                                           !.volume_collapse_threshold = th[2]]
    /\ \E expected_post_count \in {R(0), R(10)}, post_stddev \in {R(0), R(5), R(20)},
          expected_mention_count \in {Rat(1, 2), R(1), R(10)},
          required \in BOOLEAN, two \in BOOLEAN :
          azExpectation =
            [DiscourseExpectation(AnalyzeEntity, 0, 60,
                 [BaselinePattern(AnalyzeEntity, "HOUR") EXCEPT
                     !.avg_posts_per_window = expected_post_count,
                     !.post_stddev = post_stddev,
                     !.avg_sentiment = Rat(1, 5),
                     !.sentiment_stddev = Rat(3, 10)]) EXCEPT
                !.expected_post_count = expected_post_count,
                !.expected_topics =
                    <<ExpectedTopic("t1", "t1", expected_mention_count, R(1), Rat(1, 5), R(0))>>
                    \o (IF two THEN <<SecondTopic>> ELSE <<>>),
                !.required_topics = IF required THEN <<"t1">> ELSE <<>>,
                !.expected_voices = <<DrawnVoice>>,
                !.expected_sentiment = Rat(1, 5)]
    /\ \E total_posts \in 0..MaxPosts, mentions \in -1..MaxMentions,
          active \in {{}, {"a1"}}, avg_sentiment \in {Rat(-3, 10), Rat(-1, 2)} :
          azSnapshot =
            DiscourseSnapshot(AnalyzeEntity, 0, 60, total_posts,
                [t \in (IF mentions >= 0 THEN {"t1"} ELSE {}) \cup {"t2"} |->
                    IF t = "t1" THEN mentions ELSE 3],
                [t \in {"t2"} |-> Rat(-1, 2)],
                active, avg_sentiment)
    /\ lastSeen = [a \in Accounts |-> NoTime]
    /\ analyzer = "none"
    /\ azDeltas = <<>>

AnalyzeTopics ==
    /\ analyzer = "none"
    /\ analyzer' = "TopicAbsence"
    /\ azDeltas' = TopicAbsenceAnalyzer_analyze(azSnapshot, azExpectation,
                     detConfig.topic_absence_threshold, azSnapshot.window_end)
    /\ UNCHANGED <<detConfig, azSnapshot, azExpectation, lastSeen>>
    /\ UNCHANGED <<varsEvents, varsBaseline, varsSystem>>

AnalyzeVoices ==
    /\ analyzer = "none"
    /\ analyzer' = "VoiceSilence"
    /\ azDeltas' = VoiceSilenceAnalyzer_analyze(azSnapshot, azExpectation, lastSeen,
                     detConfig.voice_silence_threshold_hours, azSnapshot.window_end)
    /\ lastSeen' = UpdateLastSeen(lastSeen, azSnapshot)
    /\ UNCHANGED <<detConfig, azSnapshot, azExpectation>>
    /\ UNCHANGED <<varsEvents, varsBaseline, varsSystem>>

AnalyzeSentiment ==
    /\ analyzer = "none"
    /\ analyzer' = "SentimentDecoupling"
    /\ azDeltas' = SentimentDecouplingAnalyzer_analyze(azSnapshot, azExpectation,
                     detConfig.sentiment_deviation_threshold, azSnapshot.window_end)
    /\ UNCHANGED <<detConfig, azSnapshot, azExpectation, lastSeen>>
    /\ UNCHANGED <<varsEvents, varsBaseline, varsSystem>>

AnalyzeVolume ==
    /\ analyzer = "none"
    /\ analyzer' = "VolumeAnomaly"
    /\ azDeltas' = VolumeAnomalyAnalyzer_analyze(azSnapshot, azExpectation,
                     detConfig.volume_collapse_threshold, azSnapshot.window_end)
    /\ UNCHANGED <<detConfig, azSnapshot, azExpectation, lastSeen>>
    /\ UNCHANGED <<varsEvents, varsBaseline, varsSystem>>

NextAnalyze == AnalyzeTopics \/ AnalyzeVoices \/ AnalyzeSentiment \/ AnalyzeVolume

SpecAnalyze == InitAnalyze /\ [][NextAnalyze]_vars

----------------------------------------------------------------------------
(* Standard deviations: the sentiment and volume analyzers applied to drawn  *)
(* baselines whose standard deviations may be zero                          *)

DrawnStddevs == {R(0), Rat(1, 4), Rat(3, 10)}
DrawnSentiments == {Rat(-1, 2), Rat(-3, 10), Rat(1, 5), Rat(7, 10)}

InitStddev ==
    /\ IdleEvents
    /\ IdleBaseline
    /\ IdleSystem
    /\ detConfig = DetectionConfig
    /\ \E sentiment_stddev \in DrawnStddevs, topic_stddev \in DrawnStddevs,
          expected_post_count \in {R(0), R(10)}, post_stddev \in {R(0), R(5)} :
          azExpectation =
            [DiscourseExpectation(AnalyzeEntity, 0, 60,
                 [BaselinePattern(AnalyzeEntity, "HOUR") EXCEPT
                     !.avg_posts_per_window = expected_post_count,
                     !.post_stddev = post_stddev,
                     !.avg_sentiment = Rat(1, 5),
                     !.sentiment_stddev = sentiment_stddev]) EXCEPT
                !.expected_post_count = expected_post_count,
                !.expected_topics =
                    <<ExpectedTopic("t1", "t1", R(10), R(1), Rat(1, 5), topic_stddev)>>,
                !.expected_sentiment = Rat(1, 5)]
    /\ \E total_posts \in 0..MaxPosts, avg_sentiment \in DrawnSentiments,
          observed \in SUBSET {"t1"}, topic_sentiment \in {Rat(-1, 2), R(0)} :
          azSnapshot =
            DiscourseSnapshot(AnalyzeEntity, 0, 60, total_posts,
                [t \in {"t1"} |-> 10], [t \in observed |-> topic_sentiment],
                {}, avg_sentiment)
    /\ lastSeen = [a \in Accounts |-> NoTime]
    /\ analyzer = "none"
    /\ azDeltas = <<>>

NextStddev == AnalyzeSentiment \/ AnalyzeVolume

SpecStddev == InitStddev /\ [][NextStddev]_vars

----------------------------------------------------------------------------
(* Baselines: update_baseline applied to a baseline built from a drawn history *)

MaxHistory == 2
MaxNew == 2

BaselineEntity == "ACME"

\* the kinds of hourly snapshot the histories are made of
SnapshotKinds ==
    {[total_posts |-> 10, topic_counts |-> [t \in {"t1", "t2"} |-> IF t = "t1" THEN 4 ELSE 2],
      topic_sentiments |-> [t \in {"t1"} |-> Rat(1, 2)],
      active_accounts |-> {"a1", "a2"},
      post_counts |-> [a \in {"a1", "a2"} |-> IF a = "a1" THEN 2 ELSE 1],
      threads |-> <<[root |-> "a1", replies |-> <<"a2", "a2">>]>>,
      avg_sentiment |-> Rat(1, 2)],
     [total_posts |-> 20, topic_counts |-> [t \in {"t1"} |-> 6],
      topic_sentiments |-> [t \in {"t1"} |-> R(0)],
      active_accounts |-> {"a1"},
      post_counts |-> [a \in {"a1"} |-> 3],
      threads |-> <<>>,
      avg_sentiment |-> R(0)],
     [total_posts |-> 5, topic_counts |-> [t \in {"t2"} |-> 2],
      topic_sentiments |-> [t \in {"t2"} |-> Rat(-1, 2)],
      active_accounts |-> {"a2"},
      post_counts |-> [a \in {"a2"} |-> 1],
      threads |-> <<>>,
      avg_sentiment |-> Rat(-1, 2)]}

\* the snapshot of kind k for the hour starting at ws
HourSnapshot(k, ws) ==
    [DiscourseSnapshot(BaselineEntity, ws, ws + 60, k.total_posts, k.topic_counts,
                       k.topic_sentiments, k.active_accounts, k.avg_sentiment) EXCEPT
        !.post_counts = k.post_counts, !.threads = k.threads]

\* consecutive hourly snapshots of the given kinds, the first starting at hour h0
Timeline(kinds, h0) == [i \in 1..Len(kinds) |-> HourSnapshot(kinds[i], (h0 + i - 1) * 60)]

Reversed(s) == [i \in 1..Len(s) |-> s[Len(s) + 1 - i]]

KindLists(n) == UNION {[1..m -> SnapshotKinds] : m \in 0..n}

\* the decay factors update_baseline is called with (0.95 is the default)
DrawnDecays == {R(0), R(1), Rat(95, 100)}

InitBaseline ==
    /\ IdleEvents
    /\ IdleAnalyze
    /\ IdleSystem
    /\ \E kinds \in KindLists(MaxHistory) : history = Timeline(kinds, 0)
    /\ existingBaseline = build_baseline(BaselineEntity, history, "HOUR", MaxHistory * 60)
    /\ prevExisting = NoBaseline
    /\ \E kinds \in KindLists(MaxNew), backwards \in BOOLEAN :
          newSnapshots = IF backwards THEN Reversed(Timeline(kinds, MaxHistory))
                         ELSE Timeline(kinds, MaxHistory)
    /\ decayFactor = Rat(95, 100)
    /\ merged = NoBaseline

\* merged = builder.update_baseline(existing, new_snapshots, decay_factor)
UpdateBaseline ==
    /\ merged = NoBaseline
    /\ LET now == (MaxHistory + MaxNew) * 60
           new_baseline ==
               build_baseline(existingBaseline.entity, newSnapshots, existingBaseline.time_window, now)
       IN  \E topic_order \in Orderings(IdsOf(existingBaseline.typical_topics, "topics")
                                         \cup IdsOf(new_baseline.typical_topics, "topics")),
              voice_order \in Orderings(IdsOf(existingBaseline.typical_voices, "voices")
                                         \cup IdsOf(new_baseline.typical_voices, "voices")),
              decay_factor \in DrawnDecays :
              /\ decayFactor' = decay_factor
              /\ merged' = update_baseline(existingBaseline, newSnapshots, new_baseline,
                                           decay_factor, now, topic_order, voice_order)
              /\ existingBaseline' = ExistingAfterUpdate(existingBaseline, newSnapshots,
                                                         new_baseline, decay_factor)
    /\ prevExisting' = existingBaseline
    /\ UNCHANGED <<history, newSnapshots>>
    /\ UNCHANGED <<varsEvents, varsAnalyze, varsSystem>>

NextBaseline == UpdateBaseline

SpecBaseline == InitBaseline /\ [][NextBaseline]_vars

----------------------------------------------------------------------------
(* Generator: baselines are loaded, triggers added, expectations generated *)

MaxTicks == 2
MaxTriggers == 2

\* the time of tick k, in minutes
TimeAt(k) == k * 40

\* a hand-made baseline as the tests build it: 100 +- 20 posts, sentiment
\* 0.2 +- 0.3, one tracked topic, one expected voice (a key voice for ACME)
FixtureBaseline(entity) ==
    [BaselinePattern(entity, "HOUR") EXCEPT
        !.avg_posts_per_window = R(100),
        !.post_stddev = R(20),
        !.hourly_volume_pattern = [h \in 0..23 |-> R(1)],
        !.daily_volume_pattern = [d \in 0..6 |-> R(1)],
        !.avg_sentiment = Rat(1, 5),
        !.sentiment_stddev = Rat(3, 10),
        !.typical_topics =
            <<[ExpectedTopic("t1", "t1", R(50), R(10), Rat(1, 5), Rat(3, 10)) EXCEPT
                  !.sample_size = 100]>>,
        !.typical_voices =
            <<[ExpectedVoice("a1", "a1", R(5), R(1)) EXCEPT
                  !.is_key_voice = (entity = "ACME")]>>,
        !.sample_start = 0,
        !.sample_end = 0,
        !.sample_size = 100]

TriggerPool ==
    {ContextTrigger("earnings", "ACME", TimeAt(1), TimeAt(2), R(2), Rat(-1, 10),
                    <<"t3">>, <<"a2">>),
     ContextTrigger("news", "ACME", NoTime, NoTime, R(10), Rat(-7, 10), <<>>, <<>>),
     ContextTrigger("launch", "GLOBEX", NoTime, TimeAt(1), R(3), R(0), <<"t1">>, <<>>)}

RECURSIVE SumLens(_, _)
SumLens(f, S) ==
    IF S = {} THEN 0
    ELSE LET x == CHOOSE y \in S : TRUE IN Len(f[x]) + SumLens(f, S \ {x})

TriggerCount(tm) == Len(tm.scheduled_triggers) + SumLens(tm.active_triggers, Entities)

InitGen ==
    /\ IdleEvents
    /\ IdleAnalyze
    /\ IdleBaseline
    /\ IdleSystem

\* generator.load_baseline(entity, baseline)
LoadBaseline ==
    \E e \in Entities :
        /\ loadedBaselines[e] = NoBaseline
        /\ loadedBaselines' = [loadedBaselines EXCEPT ![e] = FixtureBaseline(e)]
        /\ UNCHANGED <<processed, queried, clock, triggerManager, generated, sharedDetector, returned, alone, aloneReturned>>
        /\ UNCHANGED <<varsEvents, varsAnalyze, varsBaseline>>

\* trigger_manager.add_trigger(trigger)
AddTrigger ==
    \E t \in TriggerPool :
        /\ TriggerCount(triggerManager) < MaxTriggers
        /\ triggerManager' = add_trigger(triggerManager, t, TimeAt(clock))
        /\ UNCHANGED <<processed, queried, clock, loadedBaselines, generated, sharedDetector, returned, alone, aloneReturned>>
        /\ UNCHANGED <<varsEvents, varsAnalyze, varsBaseline>>

\* time passes
TickGen ==
    /\ clock < MaxTicks
    /\ clock' = clock + 1
    /\ UNCHANGED <<processed, queried, loadedBaselines, triggerManager, generated, sharedDetector, returned, alone, aloneReturned>>
    /\ UNCHANGED <<varsEvents, varsAnalyze, varsBaseline>>

\* generator.generate_expectation(entity, window_start, window_end) for the
\* current or the next window
GenerateExpectation ==
    \E e \in Entities, k \in {clock, clock + 1} :
        LET got == generate_expectation(loadedBaselines, triggerManager, e, TimeAt(k),
                                        TimeAt(k) + 60, TimeAt(clock))
        IN  /\ generated' = [called |-> TRUE, entity |-> e, window_start |-> TimeAt(k),
                             had_baseline |-> loadedBaselines[e] # NoBaseline,
                             utcnow |-> TimeAt(clock), before |-> triggerManager,
                             result |-> got.result]
            /\ queried' = NotQueried
            /\ triggerManager' = got.manager
            /\ UNCHANGED <<processed, clock, loadedBaselines, sharedDetector, returned, alone, aloneReturned>>
            /\ UNCHANGED <<varsEvents, varsAnalyze, varsBaseline>>

\* trigger_manager.get_active_triggers(entity, at_time) for the previous, the
\* current or the next window start
GetActiveTriggers ==
    \E e \in Entities, k \in {clock - 1, clock, clock + 1} \cap Nat :
        \E got \in {get_active_triggers(triggerManager, e, TimeAt(k), TimeAt(clock))} :
            /\ queried' = [op |-> "get_active_triggers", entity |-> e,
                           at_time |-> TimeAt(k), utcnow |-> TimeAt(clock),
                           before |-> triggerManager, after |-> got.manager,
                           active |-> got.active]
            /\ generated' = NotCalled
            /\ triggerManager' = got.manager
            /\ UNCHANGED <<processed, clock, loadedBaselines, sharedDetector, returned, alone, aloneReturned>>
            /\ UNCHANGED <<varsEvents, varsAnalyze, varsBaseline>>

NextGen == LoadBaseline \/ AddTrigger \/ TickGen \/ GenerateExpectation \/ GetActiveTriggers

SpecGen == InitGen /\ [][NextGen]_vars

----------------------------------------------------------------------------
(* Detector: detect is called for two entities that share the account a1 *)

MaxDetects == 2

\* the kinds of snapshot observed: as expected, mildly / moderately thin with
\* a sentiment drop, and thin with the expected voice absent
ObservedKinds ==
    {[total_posts |-> 100, mentions |-> 50, active |-> {"a1"}, avg_sentiment |-> Rat(1, 5)],
     [total_posts |-> 45, mentions |-> 12, active |-> {"a1"}, avg_sentiment |-> Rat(-7, 10)],
     [total_posts |-> 30, mentions |-> 10, active |-> {"a1"}, avg_sentiment |-> Rat(-7, 10)],
     [total_posts |-> 30, mentions |-> 10, active |-> {}, avg_sentiment |-> Rat(1, 5)]}

\* the snapshot of kind k for entity e over the hour starting now
Observed(e, k) ==
    DiscourseSnapshot(e, TimeAt(clock), TimeAt(clock) + 60, k.total_posts,
                      [t \in {"t1"} |-> k.mentions], <<>>, k.active, k.avg_sentiment)

\* the number of calls made to the detector (detect or cleanup_old_deltas)
DetectCalls == IF "calls" \in DOMAIN returned THEN returned.calls ELSE 0

Init ==
    /\ IdleEvents
    /\ IdleAnalyze
    /\ IdleBaseline
    /\ clock = 0
    /\ loadedBaselines = [e \in Entities |-> IF e = "ACME" THEN FixtureBaseline(e) ELSE NoBaseline]
    /\ triggerManager = TriggerManager(Entities)
    /\ generated = NotCalled
    /\ queried = NotQueried
    /\ sharedDetector = DeltaDetector(Accounts)
    /\ returned = NotCalled
    /\ alone = [e \in Entities |-> DeltaDetector(Accounts)]
    /\ aloneReturned = NotCalled
    /\ processed = <<>>

\* the detect call on the shared detector and, beside it, the same call on
\* the detector that has seen only this entity's calls
Detected(e, snapshot, expectation) ==
    \E got \in {detect(sharedDetector, snapshot, expectation, DetectionConfig,
                       TimeAt(clock) + 60)},
       apart \in {detect(alone[e], snapshot, expectation, DetectionConfig,
                         TimeAt(clock) + 60)} :
        /\ sharedDetector' = got.detector
        /\ returned' = [called |-> TRUE, calls |-> DetectCalls + 1, entity |-> e,
                        raised |-> got.raised, deltas |-> got.deltas,
                        clusters |-> got.clusters]
        /\ alone' = [alone EXCEPT ![e] = apart.detector]
        /\ aloneReturned' = [called |-> TRUE, raised |-> apart.raised,
                             deltas |-> apart.deltas, clusters |-> apart.clusters]

\* time passes
Tick ==
    /\ clock < MaxTicks
    /\ clock' = clock + 1
    /\ UNCHANGED <<processed, queried, loadedBaselines, triggerManager, generated, sharedDetector, returned, alone, aloneReturned>>
    /\ UNCHANGED <<varsEvents, varsAnalyze, varsBaseline>>

\* detector.detect(snapshot, expectation)
DetectGiven ==
    \E e \in Entities, k \in ObservedKinds :
        \E snapshot \in {Observed(e, k)},
           expectation \in {_expectation_from_baseline(e, FixtureBaseline(e), TimeAt(clock),
                                                       TimeAt(clock) + 60)} :
            /\ DetectCalls < MaxDetects
            /\ Detected(e, snapshot, expectation)
            /\ UNCHANGED <<processed, queried, clock, loadedBaselines, triggerManager, generated>>
            /\ UNCHANGED <<varsEvents, varsAnalyze, varsBaseline>>

\* detector.detect(snapshot): the expectation is generated
DetectGenerated ==
    \E e \in Entities, k \in ObservedKinds :
        \E snapshot \in {Observed(e, k)},
           made \in {generate_expectation(loadedBaselines, triggerManager, e, TimeAt(clock),
                                          TimeAt(clock) + 60, TimeAt(clock) + 60)} :
            /\ DetectCalls < MaxDetects
            /\ Detected(e, snapshot, made.result)
            /\ triggerManager' = made.manager
            /\ UNCHANGED <<processed, queried, clock, loadedBaselines, generated>>
            /\ UNCHANGED <<varsEvents, varsAnalyze, varsBaseline>>

\* the ages cleanup_old_deltas is called with, in hours
MaxAges == {1, 24}

\* detector.cleanup_old_deltas(max_age_hours), on the shared detector and on
\* the detectors kept apart, once after a call of detect
CleanupOldDeltas ==
    \E max_age_hours \in MaxAges :
        /\ returned.called
        /\ DetectCalls < MaxDetects
        /\ sharedDetector.delta_history # <<>>
        /\ sharedDetector' = cleanup_old_deltas(sharedDetector, max_age_hours,
                                                TimeAt(clock) + 60)
        /\ alone' = [e \in Entities |->
                        cleanup_old_deltas(alone[e], max_age_hours, TimeAt(clock) + 60)]
        /\ returned' = [called |-> FALSE, calls |-> DetectCalls + 1, cleaned |-> TRUE,
                        cutoff |-> TimeAt(clock) + 60 - max_age_hours * 60]
        /\ aloneReturned' = NotCalled
        /\ UNCHANGED <<processed, queried, clock, loadedBaselines, triggerManager, generated>>
        /\ UNCHANGED <<varsEvents, varsAnalyze, varsBaseline>>

Next == Tick \/ DetectGiven \/ DetectGenerated \/ CleanupOldDeltas

Spec == Init /\ [][Next]_vars

----------------------------------------------------------------------------
(* Statistics: detect, cleanup_old_deltas and get_delta_statistics on one    *)
(* detector, in any order                                                    *)

\* the snapshots the statistics are exercised with
StatisticsKinds ==
    {[total_posts |-> 30, mentions |-> 10, active |-> {"a1"}, avg_sentiment |-> Rat(-7, 10)]}

\* the number of detect calls made
StatisticsCalls == MaxDetects + 1

\* detector.detect(snapshot, expectation) on the shared detector
DetectForStatistics ==
    \E e \in Entities, k \in StatisticsKinds :
        \E got \in {detect(sharedDetector, Observed(e, k),
                           _expectation_from_baseline(e, FixtureBaseline(e), TimeAt(clock),
                                                      TimeAt(clock) + 60),
                           DetectionConfig, TimeAt(clock) + 60)} :
            /\ DetectCalls < StatisticsCalls
            /\ sharedDetector' = got.detector
            /\ returned' = [called |-> TRUE, calls |-> DetectCalls + 1, entity |-> e]
            /\ queried' = NotQueried
            /\ UNCHANGED <<processed, clock, loadedBaselines, triggerManager, generated, alone, aloneReturned>>
            /\ UNCHANGED <<varsEvents, varsAnalyze, varsBaseline>>

\* detector.cleanup_old_deltas(max_age_hours), once after a call of detect
CleanupForStatistics ==
    \E max_age_hours \in MaxAges :
        /\ returned.called
        /\ sharedDetector' = cleanup_old_deltas(sharedDetector, max_age_hours,
                                                TimeAt(clock) + 60)
        /\ returned' = [called |-> FALSE, calls |-> DetectCalls, cleaned |-> TRUE]
        /\ queried' = NotQueried
        /\ UNCHANGED <<processed, clock, loadedBaselines, triggerManager, generated, alone, aloneReturned>>
        /\ UNCHANGED <<varsEvents, varsAnalyze, varsBaseline>>

\* detector.get_delta_statistics(entity)
GetDeltaStatistics ==
    \E e \in Entities :
        /\ queried' = [op |-> "get_delta_statistics", entity |-> e,
                       statistics |-> get_delta_statistics(sharedDetector, e)]
        /\ UNCHANGED <<processed, clock, loadedBaselines, triggerManager, generated, sharedDetector, returned, alone, aloneReturned>>
        /\ UNCHANGED <<varsEvents, varsAnalyze, varsBaseline>>

\* eighty minutes pass
TickStatistics ==
    /\ clock + 2 <= MaxTicks
    /\ clock' = clock + 2
    /\ queried' = NotQueried
    /\ UNCHANGED <<processed, loadedBaselines, triggerManager, generated, sharedDetector, returned, alone, aloneReturned>>
    /\ UNCHANGED <<varsEvents, varsAnalyze, varsBaseline>>

NextStatistics ==
    TickStatistics \/ DetectForStatistics \/ CleanupForStatistics \/ GetDeltaStatistics

SpecStatistics == Init /\ [][NextStatistics]_vars

----------------------------------------------------------------------------
(* Silences: one detector observes which expected voices post, window after *)
(* window, and is asked for coordinated silence                             *)

MaxHours == 3

\* the start of window k, in minutes: the windows are three hours apart
HourAt(k) == k * 180

\* the voice_silence_threshold_hours of the drawn configs
DrawnSilenceThresholds == {R(3), R(6)}

\* a1 is a key voice expected at any hour, a2 a regular voice expected in the
\* first ten hours of the day
SilenceVoices ==
    <<[ExpectedVoice("a1", "a1", R(5), R(1)) EXCEPT !.is_key_voice = TRUE],
      [ExpectedVoice("a2", "a2", R(2), R(1)) EXCEPT !.active_hours_utc = 0..9]>>

\* the expectation handed to detect: the fixture's, with both voices expected
SilenceExpectation(e) ==
    [_expectation_from_baseline(e, FixtureBaseline(e), HourAt(clock), HourAt(clock) + 60)
        EXCEPT !.expected_voices = SilenceVoices,
               !.required_voices = <<"a1">>]

\* a snapshot that is as expected but for the accounts that post in it
SilenceSnapshot(e, active) ==
    DiscourseSnapshot(e, HourAt(clock), HourAt(clock) + 60, 100,
                      [t \in {"t1"} |-> 50], <<>>, active, Rat(1, 5))

InitSilence ==
    /\ IdleEvents
    /\ IdleBaseline
    /\ IdleSystem
    /\ \E th \in DrawnSilenceThresholds :
          detConfig = [DetectionConfig EXCEPT !.voice_silence_threshold_hours = th]
    /\ azSnapshot = NoSnapshot
    /\ azExpectation = NoSnapshot
    /\ lastSeen = [a \in Accounts |-> NoTime]
    /\ analyzer = "none"
    /\ azDeltas = <<>>

\* time passes
TickHours ==
    /\ clock < MaxHours
    /\ clock' = clock + 1
    /\ UNCHANGED <<processed, queried, loadedBaselines, triggerManager, generated, sharedDetector, returned, alone, aloneReturned>>
    /\ UNCHANGED <<varsEvents, varsAnalyze, varsBaseline>>

\* the snapshots observed: any set of accounts posts about ACME, the key voice
\* alone about GLOBEX
ObservedActive(e) == IF e = "ACME" THEN SUBSET Accounts ELSE {{"a1"}}

\* no snapshot of the current window has been processed yet
WindowIsNew ==
    IF processed = <<>> THEN TRUE
    ELSE processed[Len(processed)].window_end < HourAt(clock) + 60

\* detector.detect(snapshot, expectation) for the current window
DetectSilence ==
    \E e \in Entities :
        \E active \in ObservedActive(e) :
            \E snapshot \in {SilenceSnapshot(e, active)}, expectation \in {SilenceExpectation(e)} :
                \E got \in {detect(sharedDetector, snapshot, expectation, detConfig,
                                   HourAt(clock) + 60)} :
                    /\ WindowIsNew
                    /\ sharedDetector' = got.detector
                    /\ returned' = [called |-> TRUE, calls |-> DetectCalls + 1, entity |-> e,
                                    raised |-> got.raised, deltas |-> got.deltas,
                                    clusters |-> got.clusters, snapshot |-> snapshot]
                    /\ processed' = Append(processed, [window_end |-> snapshot.window_end,
                                                       active_accounts |-> active])
                    /\ queried' = NotQueried
                    /\ UNCHANGED <<clock, loadedBaselines, triggerManager, generated, alone, aloneReturned>>
                    /\ UNCHANGED <<varsEvents, varsAnalyze, varsBaseline>>

\* detector.detect_coordinated_silence(snapshot, expectation) for the snapshot
\* detect was last given
DetectCoordinatedSilence ==
    /\ returned.called
    /\ queried' = [op |-> "detect_coordinated_silence", entity |-> returned.entity,
                   delta |-> detect_coordinated_silence(sharedDetector, returned.snapshot,
                                                        HourAt(clock) + 60)]
    /\ UNCHANGED <<processed, clock, loadedBaselines, triggerManager, generated, sharedDetector, returned, alone, aloneReturned>>
    /\ UNCHANGED <<varsEvents, varsAnalyze, varsBaseline>>

NextSilence == TickHours \/ DetectSilence \/ DetectCoordinatedSilence

SpecSilence == InitSilence /\ [][NextSilence]_vars

----------------------------------------------------------------------------
(* Windows in any order: the voice analyzer is handed snapshots of windows   *)
(* that need not follow one another in time                                  *)

InitWindows ==
    /\ IdleEvents
    /\ IdleBaseline
    /\ IdleSystem
    /\ \E th \in DrawnSilenceThresholds :
          detConfig = [DetectionConfig EXCEPT !.voice_silence_threshold_hours = th]
    /\ azSnapshot = NoSnapshot
    /\ azExpectation = SilenceExpectation(AnalyzeEntity)
    /\ lastSeen = [a \in Accounts |-> NoTime]
    /\ analyzer = "none"
    /\ azDeltas = <<>>

\* voice_analyzer.analyze(snapshot, expectation) for the snapshot of any window
AnalyzeWindow ==
    \E k \in 0..MaxHours, active \in SUBSET Accounts :
        LET snapshot == DiscourseSnapshot(AnalyzeEntity, HourAt(k), HourAt(k) + 60, 100,
                                          [t \in {"t1"} |-> 50], <<>>, active, Rat(1, 5))
        IN  /\ Len(processed) < MaxDetects
            /\ analyzer' = "VoiceSilence"
            /\ azSnapshot' = snapshot
            /\ azDeltas' = VoiceSilenceAnalyzer_analyze(snapshot, azExpectation, lastSeen,
                               detConfig.voice_silence_threshold_hours, snapshot.window_end)
            /\ lastSeen' = UpdateLastSeen(lastSeen, snapshot)
            /\ processed' = Append(processed, [window_end |-> snapshot.window_end,
                                               active_accounts |-> active])
            /\ UNCHANGED <<detConfig, azExpectation>>
            /\ UNCHANGED <<queried, clock, loadedBaselines, triggerManager, generated, sharedDetector, returned, alone, aloneReturned>>
            /\ UNCHANGED <<varsEvents, varsBaseline>>

NextWindows == AnalyzeWindow

SpecWindows == InitWindows /\ [][NextWindows]_vars

----------------------------------------------------------------------------
(* Filtering: detect applied under drawn values of min_delta_confidence      *)

FilterEntity == "ACME"

DrawnMinConfidences == {Rat(3, 10), Rat(1, 2), Rat(9, 10)}

\* observed snapshots: (total_posts, mentions of t1, sentiment of t1 if any,
\* active accounts, avg_sentiment).  The first is sample_snapshot of
\* tests/test_detection/test_delta_detector.py.
FilterKinds ==
    {<<30, 0, {}, {}, Rat(-3, 10)>>,
     <<300, 50, {}, {"a1"}, Rat(1, 5)>>,
     <<30, 0, {Rat(-1, 2)}, {}, Rat(-1, 2)>>,
     <<100, 50, {}, {"a1"}, Rat(-7, 10)>>,
     <<100, 50, {}, {}, Rat(1, 5)>>,
     <<100, 50, {}, {"a1"}, Rat(1, 5)>>}

FilterSnapshot(k) ==
    DiscourseSnapshot(FilterEntity, 0, 60, k[1], [t \in {"t1"} |-> k[2]],
                      [t \in (IF k[3] = {} THEN {} ELSE {"t1"}) |-> CHOOSE x \in k[3] : TRUE],
                      k[4], k[5])

\* the expectation of the fixture, as it is or modified by the earnings trigger
FilterExpectation(triggered) ==
    LET plain == _expectation_from_baseline(FilterEntity, FixtureBaseline(FilterEntity), 0, 60)
    IN  IF triggered
        THEN ApplyTriggers(plain, <<ContextTrigger("earnings", FilterEntity, NoTime, NoTime,
                                                   R(2), Rat(-1, 10), <<"t3">>, <<"a2">>)>>)
        ELSE plain

InitFilter ==
    /\ IdleEvents
    /\ IdleBaseline
    /\ IdleSystem
    /\ \E c \in DrawnMinConfidences :
          detConfig = [DetectionConfig EXCEPT !.min_delta_confidence = c]
    /\ azSnapshot = NoSnapshot
    /\ azExpectation = NoSnapshot
    /\ lastSeen = [a \in Accounts |-> NoTime]
    /\ analyzer = "none"
    /\ azDeltas = <<>>

\* detector.detect(snapshot, expectation)
DetectFiltered ==
    \E k \in FilterKinds, triggered \in BOOLEAN :
        LET snapshot == FilterSnapshot(k)
            expectation == FilterExpectation(triggered)
        IN  \E got \in {detect(sharedDetector, snapshot, expectation, detConfig, 60)} :
                /\ DetectCalls < MaxDetects
                /\ sharedDetector' = got.detector
                /\ returned' = [called |-> TRUE, calls |-> DetectCalls + 1,
                                entity |-> FilterEntity,
                                raised |-> got.raised, deltas |-> got.deltas,
                                clusters |-> got.clusters, snapshot |-> snapshot,
                                expectation |-> expectation, before |-> sharedDetector]
                /\ UNCHANGED <<processed, queried, clock, loadedBaselines, triggerManager, generated, alone, aloneReturned>>
                /\ UNCHANGED <<varsEvents, varsAnalyze, varsBaseline>>

NextFilter == DetectFiltered

SpecFilter == InitFilter /\ [][NextFilter]_vars

----------------------------------------------------------------------------
(* Claims about the classifier and the cluster *)

\* the distinct delta types of the deltas handed to create_event
InputTypes == SeqToSet(cluster.delta_types)

\* no row of the table has all its types among the input's types
Unmapped ==
    \A i \in 1..Len(DELTA_EVENT_MAPPINGS) :
        ~(SeqToSet(DELTA_EVENT_MAPPINGS[i].pattern) \subseteq InputTypes)

\* C2: create_event never raises and returns a DetectedEvent whose confidence
\* lies in [0,1], for an empty list, one delta, several deltas, with or
\* without a supplied cluster, mapped or not.
C2_CreateEventTotal ==
    eventInput # "none" =>
        /\ event.made /\ ~event.raised
        /\ RLe(R(0), event.confidence) /\ RLe(event.confidence, R(1))

C2_Witness ==
    /\ eventInput = "cluster" /\ event.made
    /\ Len(cluster.deltas) = 3 /\ ~Unmapped
    /\ RLt(R(0), event.confidence)

C8_Original ==
    (Len(cluster.deltas) >= 1 /\ cluster.deltas[Len(cluster.deltas)].severity = "CRITICAL") =>
        RLe(prevCluster.combined_confidence, cluster.combined_confidence)

\* C8 amended: adding a CRITICAL delta of confidence c leaves combined_confidence
\* at or above its previous value exactly when c is at or above that previous
\* value (the weighted mean moves towards c); a CRITICAL delta of lower
\* confidence lowers it.
C8_MeanMovesTowardsAdded ==
    (Len(cluster.deltas) >= 1 /\ cluster.deltas[Len(cluster.deltas)].severity = "CRITICAL") =>
        (RLe(prevCluster.combined_confidence, cluster.combined_confidence)
            <=> RLe(prevCluster.combined_confidence,
                    cluster.deltas[Len(cluster.deltas)].confidence))

C8_Witness ==
    /\ Len(cluster.deltas) = 3
    /\ cluster.deltas[3].severity = "CRITICAL"
    /\ prevCluster.deltas = SubSeq(cluster.deltas, 1, 2)
    /\ RLt(prevCluster.combined_confidence, cluster.combined_confidence)

----------------------------------------------------------------------------
(* Claims about the analyzers *)

\* the azDeltas of the last analysis that are about topic t
DeltasAbout(t) == {i \in 1..Len(azDeltas) : azDeltas[i].subject = t}

\* C4: TopicAbsenceAnalyzer.analyze emits a TopicAbsence delta for an expected
\* topic exactly when its expected_mention_count is at least 1 and
\* observed / expected is below the threshold; each emitted delta has
\* confidence at least 0.3, and a topic at or above the threshold gets none.
C4_TopicAbsenceIff ==
    analyzer = "TopicAbsence" =>
        /\ \A i \in 1..Len(azExpectation.expected_topics) :
              LET topic == azExpectation.expected_topics[i]
                  observed == TopicCount(azSnapshot, topic.topic_id)
                  below ==
                      /\ RLe(R(1), topic.expected_mention_count)
                      /\ RLt(R(observed),
                             RMul(detConfig.topic_absence_threshold, topic.expected_mention_count))
              IN  Cardinality(DeltasAbout(topic.topic_id)) = (IF below THEN 1 ELSE 0)
        /\ \A i \in 1..Len(azDeltas) :
              /\ azDeltas[i].delta_type = "TOPIC_ABSENCE"
              /\ RLe(Rat(3, 10), azDeltas[i].confidence)
              /\ azDeltas[i].subject \in
                    {azExpectation.expected_topics[j].topic_id :
                        j \in 1..Len(azExpectation.expected_topics)}

\* a run that emits for t1 and not for t2, whose ratio equals the threshold
C4_Witness ==
    /\ analyzer = "TopicAbsence"
    /\ detConfig.topic_absence_threshold = Rat(3, 10)
    /\ Len(azExpectation.expected_topics) = 2
    /\ Len(azDeltas) = 1
    /\ azDeltas[1].subject = "t1"
    /\ azDeltas[1].observed_value = R(2)

\* observed / expected of the analysed azSnapshot (expected_post_count > 0)
VolumeRatio == RDiv(R(azSnapshot.total_posts), azExpectation.expected_post_count)

\* (observed - expected) / stddev, or 0 without a stddev
VolumeZ ==
    IF RLt(R(0), azExpectation.baseline.post_stddev)
    THEN RDiv(RSub(R(azSnapshot.total_posts), azExpectation.expected_post_count),
              azExpectation.baseline.post_stddev)
    ELSE R(0)

\* C5: with the default thresholds and expected_post_count > 0 the volume
\* analyzer returns at most one delta; ratio < 0.5 gives one collapse delta
\* (VOLUME_COLLAPSE, confidence > 0.5); ratio > 2.0 with |z| >= 2.0 gives one
\* spike delta (VOLUME_SPIKE); 0.5 <= ratio <= 2.0 gives none.
C5_CollapseXorSpike ==
    (/\ analyzer = "VolumeAnomaly"
     /\ detConfig.volume_collapse_threshold = Rat(1, 2)
     /\ RLt(R(0), azExpectation.expected_post_count)) =>
        /\ Len(azDeltas) <= 1
        /\ RLt(VolumeRatio, Rat(1, 2)) =>
              /\ Len(azDeltas) = 1
              /\ azDeltas[1].is_collapse
              /\ azDeltas[1].delta_type = "VOLUME_COLLAPSE"
              /\ RLt(Rat(1, 2), azDeltas[1].confidence)
        /\ (RLt(R(2), VolumeRatio) /\ RLe(R(2), RAbs(VolumeZ))) =>
              /\ Len(azDeltas) = 1
              /\ ~azDeltas[1].is_collapse
              /\ azDeltas[1].delta_type = "VOLUME_SPIKE"
        /\ (RLe(Rat(1, 2), VolumeRatio) /\ RLe(VolumeRatio, R(2))) => Len(azDeltas) = 0

\* a spike is reported: ratio 2.1 with z = 2.2
C5_Witness ==
    /\ analyzer = "VolumeAnomaly"
    /\ detConfig.volume_collapse_threshold = Rat(1, 2)
    /\ azSnapshot.total_posts = 21
    /\ Len(azDeltas) = 1
    /\ azDeltas[1].delta_type = "VOLUME_SPIKE"
    /\ azDeltas[1].z_score = Rat(11, 5)

----------------------------------------------------------------------------
(* Claims about update_baseline *)

\* update_baseline was called with a non-empty list and decay d
UpdatedWith(d) == merged # NoBaseline /\ newSnapshots # <<>> /\ decayFactor = d

\* build_baseline on the new snapshots alone
NewAlone == build_baseline(BaselineEntity, newSnapshots, "HOUR", (MaxHistory + MaxNew) * 60)

\* the scalar and array fields that update_baseline blends
SameBlendedFields(a, b) ==
    /\ a.avg_posts_per_window = b.avg_posts_per_window
    /\ a.post_stddev = b.post_stddev
    /\ a.hourly_volume_pattern = b.hourly_volume_pattern
    /\ a.daily_volume_pattern = b.daily_volume_pattern
    /\ a.avg_sentiment = b.avg_sentiment
    /\ a.sentiment_stddev = b.sentiment_stddev

\* the four blended fields of a topic
SameTopicNumbers(a, b) ==
    /\ a.expected_mention_count = b.expected_mention_count
    /\ a.mention_stddev = b.mention_stddev
    /\ a.expected_sentiment = b.expected_sentiment
    /\ a.sentiment_stddev = b.sentiment_stddev

\* the two blended fields of a voice
SameVoiceNumbers(a, b) ==
    /\ a.expected_posts_per_day = b.expected_posts_per_day
    /\ a.post_stddev = b.post_stddev

\* what update_baseline does whatever the decay: the sample metadata, the
\* response patterns, the ids of the lists, the unblended fields of the
\* entries met on both sides, and the entries met only in the new baseline
MergeBookkeeping(new_baseline) ==
    /\ merged.entity = prevExisting.entity
    /\ merged.time_window = prevExisting.time_window
    /\ merged.sample_start = prevExisting.sample_start
    /\ merged.sample_end = newSnapshots[Len(newSnapshots)].window_end
    /\ merged.sample_size = prevExisting.sample_size + Len(newSnapshots)
    /\ merged.voice_response_patterns = {}
    /\ Len(merged.typical_topics) = Cardinality(IdsOf(merged.typical_topics, "topics"))
    /\ Len(merged.typical_voices) = Cardinality(IdsOf(merged.typical_voices, "voices"))
    /\ IdsOf(merged.typical_topics, "topics") =
          IdsOf(prevExisting.typical_topics, "topics") \cup IdsOf(new_baseline.typical_topics, "topics")
    /\ IdsOf(merged.typical_voices, "voices") =
          IdsOf(prevExisting.typical_voices, "voices") \cup IdsOf(new_baseline.typical_voices, "voices")
    /\ \A id \in IdsOf(new_baseline.typical_topics, "topics") :
          IF id \in IdsOf(prevExisting.typical_topics, "topics")
          THEN LET m == ById(merged.typical_topics, "topics", id)
               IN  /\ m.sample_size = ById(prevExisting.typical_topics, "topics", id).sample_size
                                      + ById(new_baseline.typical_topics, "topics", id).sample_size
                   /\ m.confidence = Rat(8, 10)
                   /\ m.absence_severity = Rat(5, 10)
                   /\ m.topic_name = ById(new_baseline.typical_topics, "topics", id).topic_name
          ELSE ById(merged.typical_topics, "topics", id) = ById(new_baseline.typical_topics, "topics", id)
    /\ \A id \in IdsOf(new_baseline.typical_voices, "voices") :
          IF id \in IdsOf(prevExisting.typical_voices, "voices")
          THEN LET m == ById(merged.typical_voices, "voices", id)
                   old == ById(prevExisting.typical_voices, "voices", id)
                   current == ById(new_baseline.typical_voices, "voices", id)
               IN  /\ m.is_key_voice = (old.is_key_voice \/ current.is_key_voice)
                   /\ m.silence_severity = RMax(old.silence_severity, current.silence_severity)
                   /\ m.username = current.username
          ELSE ById(merged.typical_voices, "voices", id) = ById(new_baseline.typical_voices, "voices", id)
    /\ \A id \in IdsOf(prevExisting.typical_voices, "voices") \ IdsOf(new_baseline.typical_voices, "voices") :
          ById(merged.typical_voices, "voices", id) = ById(prevExisting.typical_voices, "voices", id)

\* C6 as claimed: with decay_factor 1.0 the returned baseline equals the
\* existing one in every field, the lists being compared as sets.
C6_Original ==
    UpdatedWith(R(1)) =>
        /\ SameBlendedFields(merged, prevExisting)
        /\ merged.sample_start = prevExisting.sample_start
        /\ merged.sample_end = prevExisting.sample_end
        /\ merged.sample_size = prevExisting.sample_size
        /\ merged.voice_response_patterns = prevExisting.voice_response_patterns
        /\ SeqToSet(merged.typical_topics) = SeqToSet(prevExisting.typical_topics)
        /\ SeqToSet(merged.typical_voices) = SeqToSet(prevExisting.typical_voices)

\* C6 amended: with decay_factor 1.0 and non-empty new_snapshots the returned
\* baseline keeps the existing values of the blended fields only: volume mean
\* and stddev, hourly and daily patterns, sentiment mean and stddev,
\* sample_start, the four numeric fields of every existing topic, the posts
\* per day and stddev of every existing voice, and every field of the topics
\* and voices that the new snapshots do not yield.  sample_end becomes the last
\* new snapshot's window_end, sample_size grows by len(new_snapshots), the
\* response patterns are empty, topics and voices found only in the new
\* snapshots are added, and an entry found on both sides gets a summed
\* sample_size and default confidence / absence_severity (topic) or the or-ed
\* is_key_voice and the larger silence_severity (voice).
C6_DecayOneKeepsBlendedFields ==
    LET nb == NewAlone
    IN
        UpdatedWith(R(1)) =>
            /\ SameBlendedFields(merged, prevExisting)
            /\ existingBaseline = prevExisting
            /\ MergeBookkeeping(nb)
            /\ \A id \in IdsOf(prevExisting.typical_topics, "topics") :
                  LET m == ById(merged.typical_topics, "topics", id)
                      old == ById(prevExisting.typical_topics, "topics", id)
                  IN  /\ SameTopicNumbers(m, old)
                      /\ id \notin IdsOf(nb.typical_topics, "topics") => m = old
            /\ \A id \in IdsOf(prevExisting.typical_voices, "voices") :
                  SameVoiceNumbers(ById(merged.typical_voices, "voices", id),
                                   ById(prevExisting.typical_voices, "voices", id))

\* a built baseline with one topic is updated with snapshots that yield another
C6_Witness ==
    /\ UpdatedWith(R(1))
    /\ prevExisting.sample_size = 2
    /\ IdsOf(prevExisting.typical_topics, "topics") = {"t1"}
    /\ IdsOf(merged.typical_topics, "topics") = {"t1", "t2"}
    /\ prevExisting.voice_response_patterns # {}
    /\ merged.sample_size = 4

\* C7 as claimed: with decay_factor 0.0 the returned baseline equals
\* build_baseline(new_snapshots) in every merged field, topic and voice lists
\* included (compared as sets).
C7_Original ==
    LET nb == NewAlone
    IN
        UpdatedWith(R(0)) =>
            /\ SameBlendedFields(merged, nb)
            /\ SeqToSet(merged.typical_topics) = SeqToSet(nb.typical_topics)
            /\ SeqToSet(merged.typical_voices) = SeqToSet(nb.typical_voices)

\* C7 amended: with decay_factor 0.0 and non-empty new_snapshots the returned
\* baseline takes from build_baseline(new_snapshots) the blended fields only:
\* volume mean and stddev, hourly and daily patterns, sentiment mean and
\* stddev, the four numeric fields of every topic and the posts per day and
\* stddev of every voice the new snapshots yield.  Topics found only in the
\* existing baseline stay in the list with expected_mention_count 0 (and are
\* changed in the existing baseline too), voices found only there stay
\* unchanged, and sample metadata and the unblended fields follow the same
\* rules as for any decay.
C7_DecayZeroTakesBlendedFields ==
    LET nb == NewAlone
    IN
        UpdatedWith(R(0)) =>
            /\ SameBlendedFields(merged, nb)
            /\ MergeBookkeeping(nb)
            /\ \A id \in IdsOf(nb.typical_topics, "topics") :
                  SameTopicNumbers(ById(merged.typical_topics, "topics", id),
                                   ById(nb.typical_topics, "topics", id))
            /\ \A id \in IdsOf(nb.typical_voices, "voices") :
                  SameVoiceNumbers(ById(merged.typical_voices, "voices", id),
                                   ById(nb.typical_voices, "voices", id))
            /\ \A id \in IdsOf(prevExisting.typical_topics, "topics")
                            \ IdsOf(nb.typical_topics, "topics") :
                  LET old == ById(prevExisting.typical_topics, "topics", id)
                  IN  /\ ById(merged.typical_topics, "topics", id) =
                            [old EXCEPT !.expected_mention_count = R(0)]
                      /\ ById(existingBaseline.typical_topics, "topics", id) =
                            [old EXCEPT !.expected_mention_count = R(0)]

\* a topic of the existing baseline that the new snapshots do not yield
C7_Witness ==
    LET nb == NewAlone
    IN
        /\ UpdatedWith(R(0))
        /\ IdsOf(nb.typical_topics, "topics") = {"t2"}
        /\ "t1" \in IdsOf(merged.typical_topics, "topics")
        /\ ById(prevExisting.typical_topics, "topics", "t1").expected_mention_count = R(5)
        /\ ById(merged.typical_topics, "topics", "t1").expected_mention_count = R(0)

----------------------------------------------------------------------------
(* Claims about the generator and the detector *)

\* C1 as claimed: generate_expectation for an entity without a cached baseline
\* does not raise and returns an expectation with confidence 0.1,
\* post_count_range (0, infinity) and sentiment_range (-1, 1).
C1_Original ==
    (generated.called /\ ~generated.had_baseline) =>
        /\ ~generated.result.raised
        /\ generated.result.confidence = Rat(1, 10)
        /\ generated.result.post_count_range = <<R(0), Infinity>>
        /\ generated.result.sentiment_range = <<R(-1), R(1)>>

\* the recorded deltas of the entity of the last detect call
EntityDeltas ==
    LET OfEntity(d) == d.entity = returned.entity
    IN  SelectSeq(sharedDetector.recent_deltas, OfEntity)

\* the deltas of the entity lie within one 60-minute window and have at least
\* three distinct types
ThreeTypesInOneWindow ==
    /\ returned.called /\ ~returned.raised
    /\ \A i, j \in 1..Len(EntityDeltas) :
          EntityDeltas[i].detected_at - EntityDeltas[j].detected_at <= 60
    /\ Cardinality({EntityDeltas[i].delta_type : i \in 1..Len(EntityDeltas)}) >= 3

\* the heaviest severity among the deltas of the entity
MaxMemberIndex ==
    CHOOSE m \in 1..Len(DeltaSeverity) :
        /\ \E i \in 1..Len(EntityDeltas) : SeverityIndex(EntityDeltas[i].severity) = m
        /\ \A i \in 1..Len(EntityDeltas) : SeverityIndex(EntityDeltas[i].severity) <= m

\* exactly one cluster is formed and it holds exactly the deltas of the entity
OneClusterOfAll ==
    /\ Len(returned.clusters) = 1
    /\ Len(returned.clusters[1].deltas) = Len(EntityDeltas)
    /\ SeqToSet(returned.clusters[1].deltas) = SeqToSet(EntityDeltas)

\* C9 as claimed: three distinct delta types within one 60-minute window form
\* exactly one cluster whose combined_severity is exactly one level above the
\* maximum member severity, whatever that maximum is.
C9_Original ==
    ThreeTypesInOneWindow =>
        /\ OneClusterOfAll
        /\ SeverityIndex(returned.clusters[1].combined_severity) = MaxMemberIndex + 1

\* C9 amended: they form exactly one cluster, whose combined_severity is one
\* level above the maximum member severity when that maximum is LOW, MEDIUM or
\* HIGH, and stays CRITICAL when the maximum is CRITICAL.
C9_EscalatesBelowCritical ==
    ThreeTypesInOneWindow =>
        /\ OneClusterOfAll
        /\ returned.clusters[1].combined_severity =
              DeltaSeverity[Min2(MaxMemberIndex + 1, Len(DeltaSeverity))]

\* a cluster of three LOW deltas of three types, escalated to MEDIUM
C9_Witness ==
    /\ ThreeTypesInOneWindow
    /\ Len(returned.clusters) = 1
    /\ MaxMemberIndex = 1
    /\ returned.clusters[1].combined_severity = "MEDIUM"

\* C10 as claimed: what detect returns for an entity (deltas and clusters) is
\* what it returns when the calls for the other entity are left out.
C10_Original ==
    (returned.called /\ ~returned.raised) =>
        /\ returned.deltas = aloneReturned.deltas
        /\ returned.clusters = aloneReturned.clusters

----------------------------------------------------------------------------
(* Claims about the detector's stores *)

\* no delta of the list was detected before the cutoff
NoneOlderThan(ds, cutoff) == \A i \in 1..Len(ds) : ds[i].detected_at >= cutoff

\* C11 as claimed: after cleanup_old_deltas(max_age_hours) returns, no delta
\* detected before now - max_age_hours remains in recent_deltas or in
\* delta_history.
C11_Original ==
    ("cleaned" \in DOMAIN returned) =>
        /\ NoneOlderThan(sharedDetector.recent_deltas, returned.cutoff)
        /\ NoneOlderThan(sharedDetector.delta_history, returned.cutoff)

----------------------------------------------------------------------------
(* Claims about the triggers *)

\* the scheduled trigger's start_time has passed at at_time
StartPassed(t, at_time) == t.start_time # NoTime /\ t.start_time <= at_time

\* C12 as claimed: after get_active_triggers(entity, at_time) no trigger whose
\* start_time <= at_time remains scheduled, and every such trigger of the
\* entity that is active at at_time is in the returned list, for any at_time.
C12_Original ==
    (queried.op = "get_active_triggers") =>
        /\ \A i \in 1..Len(queried.after.scheduled_triggers) :
              ~StartPassed(queried.after.scheduled_triggers[i], queried.at_time)
        /\ \A i \in 1..Len(queried.before.scheduled_triggers) :
              LET t == queried.before.scheduled_triggers[i]
              IN  (/\ StartPassed(t, queried.at_time)
                   /\ t.entity = queried.entity
                   /\ is_active(t, queried.at_time))
                      => t \in SeqToSet(queried.active)

\* the half-open interval check [start, end)
InHalfOpenWindow(t, check_time) ==
    /\ (t.start_time = NoTime \/ t.start_time <= check_time)
    /\ (t.end_time = NoTime \/ check_time < t.end_time)

\* C13 as claimed: is_active(t) is the half-open check [start, end), false at
\* t = end_time: get_active_triggers returns an active trigger of the entity
\* exactly when at_time lies in the trigger's half-open window.
C13_Original ==
    (queried.op = "get_active_triggers") =>
        \A i \in 1..Len(queried.before.active_triggers[queried.entity]) :
            LET t == queried.before.active_triggers[queried.entity][i]
            IN  /\ is_active(t, queried.at_time) <=> InHalfOpenWindow(t, queried.at_time)
                /\ (t \in SeqToSet(queried.active)) <=> InHalfOpenWindow(t, queried.at_time)

----------------------------------------------------------------------------
(* Claims about silences *)

\* the recent VoiceSilence deltas of the entity
SilentDeltasOf(entity) ==
    LET Silent(d) == d.delta_type = "VOICE_SILENCE" /\ d.entity = entity
    IN  SelectSeq(sharedDetector.recent_deltas, Silent)

\* two of the deltas have last_post_times less than six hours apart
TwoWithinSixHours(ds) ==
    \E i, j \in 1..Len(ds) :
        /\ i < j
        /\ ds[i].last_post_time # NoTime
        /\ ds[j].last_post_time # NoTime
        /\ RLt(RAbs(HoursBetween(ds[i].last_post_time, ds[j].last_post_time)), R(6))

\* C14 as claimed: detect_coordinated_silence returns a CoordinatedSilence
\* delta exactly when two recent VoiceSilence deltas of the entity have
\* last_post_times within six hours of each other, whatever the other
\* VoiceSilence deltas are; its coordination_score is 1 - spread/6 and its
\* confidence 0.8 times the score.
C14_Original ==
    (queried.op = "detect_coordinated_silence") =>
        /\ (queried.delta # NoDelta) <=> TwoWithinSixHours(SilentDeltasOf(queried.entity))
        /\ (queried.delta # NoDelta) =>
              /\ queried.delta.delta_type = "COORDINATED_SILENCE"
              /\ queried.delta.coordination_score =
                     RSub(R(1), RDiv(queried.delta.time_spread_hours, R(6)))
              /\ queried.delta.confidence = RMul(Rat(8, 10), queried.delta.coordination_score)

\* the snapshot of the last analyze call
LastProcessed == processed[Len(processed)]

\* the window_ends of the processed snapshots in which the account was active
ActiveWindowEnds(account_id) ==
    {processed[i].window_end : i \in {j \in 1..Len(processed) : account_id \in processed[j].active_accounts}}

\* the latest of them
LatestActive(account_id) ==
    CHOOSE t \in ActiveWindowEnds(account_id) : \A u \in ActiveWindowEnds(account_id) : u <= t

\* the hours of silence the analyzer reports for the voice
SilenceHoursOf(v) ==
    IF ActiveWindowEnds(v.account_id) = {}
    THEN RMul(detConfig.voice_silence_threshold_hours, R(2))
    ELSE HoursBetween(LatestActive(v.account_id), LastProcessed.window_end)

\* the voice is silent in the last processed snapshot, as the claim defines it
IsSilent(v) ==
    /\ v.account_id \notin LastProcessed.active_accounts
    /\ expected_to_be_active(v, LastProcessed.window_end)
    /\ \/ ActiveWindowEnds(v.account_id) = {}
       \/ RLe(detConfig.voice_silence_threshold_hours,
              HoursBetween(LatestActive(v.account_id), LastProcessed.window_end))

\* the VoiceSilence deltas returned for the account
VoiceDeltasFor(account_id) ==
    {i \in 1..Len(returned.deltas) :
        /\ returned.deltas[i].delta_type = "VOICE_SILENCE"
        /\ returned.deltas[i].subject = account_id}

\* C15: over analyze calls with increasing window_end a VoiceSilence delta is
\* returned for an expected voice exactly when the voice is not active in the
\* snapshot, is expected to be active at window_end, and was never active in a
\* processed snapshot or was last active threshold_hours or more before
\* window_end; its confidence is min(0.95, 0.4 + 0.3 * min(1, silence_hours /
\* (2 * threshold)) + 0.3 for a key voice), silence_hours being 2 * threshold
\* for a voice never seen.
C15_SilenceFromProcessed ==
    (returned.called /\ ~returned.raised) =>
        \A k \in 1..Len(SilenceVoices) :
            LET v == SilenceVoices[k]
            IN  /\ (VoiceDeltasFor(v.account_id) # {}) <=> IsSilent(v)
                /\ \A i \in VoiceDeltasFor(v.account_id) :
                      /\ returned.deltas[i].silence_hours = SilenceHoursOf(v)
                      /\ returned.deltas[i].confidence =
                             RMin(Rat(95, 100),
                                  RAdd(RAdd(Rat(4, 10),
                                            RMul(Rat(3, 10),
                                                 RMin(R(1), RDiv(SilenceHoursOf(v),
                                                     RMul(R(2), detConfig.voice_silence_threshold_hours))))),
                                       IF v.is_key_voice THEN Rat(3, 10) ELSE R(0)))

\* a voice seen before is reported after exactly threshold_hours of silence,
\* while another is reported that was never seen
C15_Witness ==
    /\ returned.called
    /\ ~returned.raised
    /\ \E i, j \in 1..Len(returned.deltas) :
          /\ returned.deltas[i].delta_type = "VOICE_SILENCE"
          /\ returned.deltas[i].last_post_time # NoTime
          /\ returned.deltas[i].silence_hours = detConfig.voice_silence_threshold_hours
          /\ returned.deltas[j].delta_type = "VOICE_SILENCE"
          /\ returned.deltas[j].last_post_time = NoTime

----------------------------------------------------------------------------
(* Claims about zero standard deviations *)

\* the sentiment deltas emitted about the subject ("" is the overall sentiment)
SentimentDeltasAbout(subject) ==
    {i \in 1..Len(azDeltas) :
        azDeltas[i].delta_type = "SENTIMENT_DECOUPLING" /\ azDeltas[i].subject = subject}

\* stddev > 0 and |observed - expected| / stddev >= z_threshold
SignificantGap(observed, expected, stddev) ==
    /\ RLt(R(0), stddev)
    /\ RLe(detConfig.sentiment_deviation_threshold, RDiv(RAbs(RSub(observed, expected)), stddev))

----------------------------------------------------------------------------
(* Claims about what detect returns *)

\* C17 as claimed: with min_delta_confidence 0.3 detect returns at least one
\* SENTIMENT_DECOUPLING delta for a snapshot whose avg_sentiment lies 0.5 or
\* more below the expected sentiment when the baseline sentiment_stddev is 0.3.
C17_Original ==
    (/\ returned.called
     /\ ~returned.raised
     /\ detConfig.min_delta_confidence = Rat(3, 10)
     /\ returned.expectation.baseline.sentiment_stddev = Rat(3, 10)
     /\ RLe(Rat(1, 2), RSub(returned.expectation.expected_sentiment,
                            returned.snapshot.avg_sentiment)))
        => \E i \in 1..Len(returned.deltas) :
              returned.deltas[i].delta_type = "SENTIMENT_DECOUPLING"

\* the number lies in [0, 1]
InUnitInterval(x) == RLe(R(0), x) /\ RLe(x, R(1))

\* C19 as claimed: every delta returned by detect and every CoordinatedSilence
\* delta has its confidence and its deviation_score in [0, 1].
C19_Original ==
    /\ (returned.called /\ ~returned.raised) =>
          \A i \in 1..Len(returned.deltas) :
              /\ InUnitInterval(returned.deltas[i].confidence)
              /\ InUnitInterval(returned.deltas[i].deviation_score)
    /\ (queried.op = "detect_coordinated_silence" /\ queried.delta # NoDelta) =>
          /\ InUnitInterval(queried.delta.confidence)
          /\ InUnitInterval(queried.delta.deviation_score)

\* what the four analyzers emit for the snapshot and expectation of the call
AnalyzersFound ==
    TopicAbsenceAnalyzer_analyze(returned.snapshot, returned.expectation,
                                 detConfig.topic_absence_threshold, 60)
    \o VoiceSilenceAnalyzer_analyze(returned.snapshot, returned.expectation,
                                    returned.before.last_seen,
                                    detConfig.voice_silence_threshold_hours, 60)
    \o SentimentDecouplingAnalyzer_analyze(returned.snapshot, returned.expectation,
                                           detConfig.sentiment_deviation_threshold, 60)
    \o VolumeAnomalyAnalyzer_analyze(returned.snapshot, returned.expectation,
                                     detConfig.volume_collapse_threshold, 60)

\* confidence >= min_delta_confidence
AboveThreshold(d) == RLe(detConfig.min_delta_confidence, d.confidence)

\* the grade of deviation_score * confidence
GradeOf(d) ==
    LET score == RMul(d.deviation_score, d.confidence)
    IN  CASE RLe(Rat(8, 10), score) -> "CRITICAL"
          [] RLt(score, Rat(8, 10)) /\ RLe(Rat(6, 10), score) -> "HIGH"
          [] RLt(score, Rat(6, 10)) /\ RLe(Rat(4, 10), score) -> "MEDIUM"
          [] RLt(score, Rat(4, 10)) -> "LOW"

\* C20: detect returns exactly the analyzers' deltas whose confidence is at
\* least min_delta_confidence, each with the severity graded from
\* deviation_score * confidence; exactly the returned deltas are appended to
\* recent_deltas and delta_history, and no delta below the threshold is stored
\* or is a member of a cluster handed to the callback.
C20_ReturnsConfidentDeltas ==
    (returned.called /\ ~returned.raised) =>
        LET kept == SelectSeq(AnalyzersFound, AboveThreshold)
        IN  /\ Len(returned.deltas) = Len(kept)
            /\ \A i \in 1..Len(kept) :
                  returned.deltas[i] = [kept[i] EXCEPT !.severity = GradeOf(kept[i])]
            /\ sharedDetector.recent_deltas = returned.before.recent_deltas \o returned.deltas
            /\ sharedDetector.delta_history = returned.before.delta_history \o returned.deltas
            /\ \A i \in 1..Len(sharedDetector.recent_deltas) :
                  AboveThreshold(sharedDetector.recent_deltas[i])
            /\ \A i \in 1..Len(sharedDetector.delta_history) :
                  AboveThreshold(sharedDetector.delta_history[i])
            /\ \A c \in 1..Len(returned.clusters) :
                  \A i \in 1..Len(returned.clusters[c].deltas) :
                      AboveThreshold(returned.clusters[c].deltas[i])

\* a second call keeps some of the analyzers' deltas and drops others, and
\* grades one of the kept deltas HIGH or CRITICAL and another lower
C20_Witness ==
    /\ returned.called
    /\ ~returned.raised
    /\ returned.before.recent_deltas # <<>>
    /\ returned.deltas # <<>>
    /\ Len(returned.deltas) < Len(AnalyzersFound)
    /\ \E i, j \in 1..Len(returned.deltas) :
          /\ returned.deltas[i].severity \in {"HIGH", "CRITICAL"}
          /\ returned.deltas[j].severity \in {"LOW", "MEDIUM"}

----------------------------------------------------------------------------
(* Claims about exact matches of the table *)

\* the rows of the table whose key holds exactly the distinct types of the cluster
RowsOfSameTypes(c) ==
    {r \in 1..Len(DELTA_EVENT_MAPPINGS) :
        SeqToSet(DELTA_EVENT_MAPPINGS[r].pattern) = SeqToSet(c.delta_types)}

\* the mean confidence of the deltas
MeanConfidence(ds) == RDiv(RSum([i \in 1..Len(ds) |-> ds[i].confidence]), R(Len(ds)))

\* C18 as claimed: a cluster whose set of distinct delta types equals a key of
\* DELTA_EVENT_MAPPINGS is classified from that key's own row: the primary
\* type and the base probability are those of the row's first entry.
C18_Original ==
    (eventInput = "cluster" /\ event.made) =>
        \A r \in RowsOfSameTypes(cluster) :
            LET first == DELTA_EVENT_MAPPINGS[r].mappings[1]
            IN  /\ event.classification.primary_type = first[1]
                /\ event.classification.primary_confidence =
                       BoostedConfidence(first[2], MeanConfidence(cluster.deltas))

----------------------------------------------------------------------------
(* Claims about the callbacks *)

\* C21 as claimed: on_cluster_detected is invoked only for clusters that hold
\* at least one delta returned by that call of detect; a cluster made up
\* entirely of deltas of earlier calls is not reported again.
C21_Original ==
    (returned.called /\ ~returned.raised) =>
        \A c \in 1..Len(returned.clusters) :
            \E i \in 1..Len(returned.clusters[c].deltas) :
                returned.clusters[c].deltas[i] \in SeqToSet(returned.deltas)

----------------------------------------------------------------------------
(* Claims about the clusters *)

\* the recent deltas of the entity of the call, sorted by detected_at
SortedOfEntity ==
    LET OfEntity(d) == d.entity = returned.entity
    IN  SortedByDetected(SelectSeq(sharedDetector.recent_deltas, OfEntity))

\* the positions at which a group starts: the first, and each one that lies
\* more than cluster_window_minutes after its predecessor
GroupStarts ==
    {i \in 1..Len(SortedOfEntity) :
        \/ i = 1
        \/ SortedOfEntity[i].detected_at - SortedOfEntity[i - 1].detected_at
               > detConfig.cluster_window_minutes}

\* the last position of the group that starts at s
GroupEnd(s) ==
    CHOOSE e \in s..Len(SortedOfEntity) :
        /\ \A j \in (s + 1)..e : j \notin GroupStarts
        /\ (e = Len(SortedOfEntity) \/ (e + 1) \in GroupStarts)

\* the groups of at least min_cluster_size deltas
LargeGroupStarts == {s \in GroupStarts : GroupEnd(s) - s + 1 >= detConfig.min_cluster_size}

----------------------------------------------------------------------------
(* Claims about the generated expectation *)

\* the triggers registered for the entity before the call, in registration
\* order within each list, that are active at the time
RegisteredActive(tm, entity, at_time) ==
    LET OfEntity(t) == t.entity = entity
        Active(t) == is_active(t, at_time)
    IN  SelectSeq(tm.active_triggers[entity] \o SelectSeq(tm.scheduled_triggers, OfEntity),
                  Active)

\* the sequence in reverse order
RECURSIVE Backwards(_)
Backwards(sq) == IF sq = <<>> THEN <<>> ELSE Backwards(Tail(sq)) \o <<Head(sq)>>

\* C23 as claimed: generate_expectation applies every trigger of the entity
\* that is active at window_start: expected_post_count is the baseline's
\* expected volume times the product of their volume_multipliers and
\* expected_sentiment the baseline avg_sentiment plus the sum of their
\* sentiment_shifts, in whatever order they were registered, and the factors
\* are those summarize_active_triggers reports for the same active set.
C23_Original ==
    (generated.called /\ generated.had_baseline) =>
        LET e == generated.entity
            due == RegisteredActive(generated.before, e, generated.window_start)
            baseline == loadedBaselines[e]
            volume == expected_volume_at(baseline, generated.window_start)
            summary == summarize_active_triggers(generated.before, e, generated.utcnow)
        IN  /\ generated.result.expected_post_count = RMul(volume, CombinedVolume(due))
            /\ generated.result.expected_sentiment =
                   RAdd(baseline.avg_sentiment, CombinedSentiment(due))
            /\ CombinedVolume(Backwards(due)) = CombinedVolume(due)
            /\ CombinedSentiment(Backwards(due)) = CombinedSentiment(due)
            /\ (summary.triggers = generated.result.active_triggers) =>
                  /\ generated.result.expected_post_count =
                         RMul(volume, summary.combined_volume_multiplier)
                  /\ generated.result.expected_sentiment =
                         RAdd(baseline.avg_sentiment, summary.combined_sentiment_shift)

----------------------------------------------------------------------------
(* Claims about the last_seen map *)

\* C24 as claimed: after cleanup_old_deltas(max_age_hours) no last_seen entry
\* older than the cutoff remains in the voice analyzer's map.
C24_Original ==
    ("cleaned" \in DOMAIN returned) =>
        \A a \in DOMAIN sharedDetector.last_seen :
            \/ sharedDetector.last_seen[a] = NoTime
            \/ sharedDetector.last_seen[a] >= returned.cutoff

----------------------------------------------------------------------------
(* Claims about the statistics *)

\* the positions of recent_deltas that hold a delta of the entity
OwnDeltas(entity) ==
    {i \in 1..Len(sharedDetector.recent_deltas) : sharedDetector.recent_deltas[i].entity = entity}

\* the sum of the counts of a dict of counts
RECURSIVE SumCounts(_, _)
SumCounts(counts, names) ==
    IF names = {} THEN 0
    ELSE LET n == CHOOSE x \in names : TRUE
         IN  counts[n] + SumCounts(counts, names \ {n})

----------------------------------------------------------------------------
(* Claims about queries of the active triggers *)

\* C26 as claimed: what get_active_triggers(entity, t) returns does not depend
\* on earlier queries: a trigger of the entity that was registered when an
\* earlier query was made, whatever the time of that query, is returned by the
\* next query whenever start_time <= t <= end_time.
C26_Original ==
    [][(/\ queried.op = "get_active_triggers"
        /\ queried'.op = "get_active_triggers"
        /\ queried' # queried
        /\ queried'.entity = queried.entity)
       => \A t \in SeqToSet(RegisteredActive(queried.before, queried.entity, queried'.at_time)) :
              t \in SeqToSet(queried'.active)]_vars

----------------------------------------------------------------------------
(* Claims about the configured collapse threshold *)

\* C27 as claimed: for every configured volume_collapse_threshold, the delta
\* emitted because the ratio is below the threshold has delta_type
\* VOLUME_COLLAPSE and is_collapse true, and the delta emitted by the spike
\* branch has delta_type VOLUME_SPIKE and is_collapse false.
C27_Original ==
    (/\ analyzer = "VolumeAnomaly"
     /\ RLt(R(0), azExpectation.expected_post_count)
     /\ Len(azDeltas) = 1) =>
        IF RLt(VolumeRatio, detConfig.volume_collapse_threshold)
        THEN azDeltas[1].delta_type = "VOLUME_COLLAPSE" /\ azDeltas[1].is_collapse
        ELSE azDeltas[1].delta_type = "VOLUME_SPIKE" /\ ~azDeltas[1].is_collapse

----------------------------------------------------------------------------
(* Claims about the accounts a coordinated silence names *)

\* C28 as claimed: every CoordinatedSilence delta names at least two distinct
\* silent accounts, and its time spread is computed from at least two known
\* last_post_time values, one for each named account: silent_accounts and
\* silence_start_times have the same length.
C28_Original ==
    (/\ queried.op = "detect_coordinated_silence"
     /\ queried.delta.delta_type = "COORDINATED_SILENCE") =>
        /\ Cardinality(SeqToSet(queried.delta.silent_accounts)) >= 2
        /\ Len(queried.delta.silence_start_times) >= 2
        /\ Len(queried.delta.silent_accounts) = Len(queried.delta.silence_start_times)

----------------------------------------------------------------------------
(* Claims about windows analysed in any order *)

\* C29 as claimed: last_seen never moves backwards: after analyze calls in any
\* order of windows, last_seen of an account is the greatest window_end among
\* the processed snapshots in which the account was active.
C29_Original ==
    \A a \in Accounts :
        lastSeen[a] = IF ActiveWindowEnds(a) = {} THEN NoTime ELSE LatestActive(a)

----------------------------------------------------------------------------
(* Claims about the ranges of the generated expectation *)

\* lo <= x <= hi for the range <<lo, hi>>
Within(x, range) == RLe(range[1], x) /\ RLe(x, range[2])

\* C30 as claimed: every expectation returned by generate_expectation is
\* consistent after the triggers were applied: expected_post_count lies within
\* post_count_range and expected_sentiment within sentiment_range, whatever
\* triggers with non-negative multipliers and whatever shifts were active.
C30_Original ==
    (generated.called /\ ~generated.result.raised) =>
        /\ Within(generated.result.expected_post_count, generated.result.post_count_range)
        /\ Within(generated.result.expected_sentiment, generated.result.sentiment_range)

====
